---- MODULE Spec2Model ----
(***************************************************************************)
(* A model of the dependency-edge engine of dag-benchmarks/bench.cpp: the  *)
(* in-counters and out-sets of the direct ("top-down") variant, and the    *)
(* node combinators built on them.                                         *)
(*                                                                         *)
(* The module holds several specifications, one per component, over one    *)
(* set of variables; a component that a specification does not exercise    *)
(* stays in its initial ("off") state.                                     *)
(*   SpecSimple   simple_outset::insert / finish racing through add_edge   *)
(*   SpecFetchAdd increment_incounter / decrement_incounter on FETCH_ADD   *)
(***************************************************************************)
EXTENDS Integers, Sequences, FiniteSets, TLC

(***************************************************************************)
(* Bounds of the model.                                                    *)
(***************************************************************************)
\* number of concurrent add_edge callers on one simple out-set
NbEdgeWorkers == 2
\* number of target nodes the add_edge callers choose among
NbTargets == 2
\* number of workers of the fetch-add in-counter scenario
NbFaWorkers == 2
\* number of increments (each later matched by a decrement) a worker issues
NbFaRounds == 2

EdgeWorkers == 1..NbEdgeWorkers
Targets == 1..NbTargets
FaWorkers == 1..NbFaWorkers

(***************************************************************************)
(* In-strategy tags (pasl::sched::instrategy) as used by bench.cpp.        *)
(***************************************************************************)
READY_TAG == "READY"
UNARY_TAG == "UNARY"
FETCH_ADD_TAG == "FETCH_ADD"

\* result of outset::insert
insert_success == "insert_success"
insert_fail == "insert_fail"

VARIABLES
  \* ---- in-strategy words of the target nodes, and the scheduler's log
  tin,          \* tin[t] = [tag, val]: the tagged word target->in
  sched,        \* sched[t]: number of schedule(t) calls made so far
  \* ---- simple_outset
  head,         \* [list, fin]: the tagged head pointer; list is the chain of cells
  sda,          \* should_deallocate_automatically
  alive,        \* the out-set object has not been deleted
  \* ---- add_edge callers (one call each)
  ae_pc, ae_tgt, ae_orig, ae_res,
  ae_late,      \* history: insert was entered after finish had swung head
  ae_incs, ae_decSelf, ae_decFin,  \* history: per edge, the increments and decrements
  \* ---- the caller of simple_outset::finish
  fin_pc, fin_orig, fin_todo,
  \* ---- fetch-add scenario
  fa_incs, fa_decs,  \* per worker, the increments and decrements issued
  fa_old,       \* per worker, the old value its last fetch-and-add(-1) returned
  fa_by,        \* history: per worker, the schedule calls its decrements made
  fa_zero,      \* history: number of times the count went from 1 to 0
  \* ---- DAG nodes and combinators
  d_prog,       \* the benchmark program that runs, and its n
  d_nodes,      \* the nodes constructed so far, by name
  d_fut,        \* the one future out-set (a simple_outset) and its finish
  d_ctr,        \* the programs' counters
  d_err,        \* an assertion of the engine has failed
  \* ---- dyntree out-set
  o_tree,       \* the outset_nodes: o_tree[node][slot] = [tag, p]
  o_delay,      \* communication_delay
  o_ins,        \* the callers of insert
  o_wk,         \* the walkers of the notify walk
  o_dec,        \* history: decrement_incounter calls of the walk, per successor
  o_fin,        \* where the call of finish is: none, running, returned
  \* ---- dyntree in-counter
  i_in,         \* dyntree_incounter::in
  i_ch,         \* the incounter_nodes: i_ch[node][slot] = [p, m]
  i_w,          \* the threads of the microbenchmark
  i_stop,       \* should_stop
  i_act,        \* history: decrements that returned activated
  i_undisc,     \* history: a thread called decrement with no increment of its own unmatched
  i_solo,       \* the thread that runs alone, 0 while every thread runs
  \* ---- deallocation of the dyntree out-set
  o_sda,        \* should_deallocate_automatically
  o_dels,       \* history: how many times the out-set object was deleted
  o_parx,       \* the exit block of notify_outset_tree_nodes_par has run
  o_fw,         \* the walkers of the deallocation walk
  o_freed,      \* the outset_nodes that were deleted
  o_err,        \* history: an assertion of the deallocation walk failed, or a
                \* node was deleted twice
  \* ---- parallel_for (lazy_parallel_for_rec) under parallel_for_test
  pf_lo,        \* the range [pf_lo, pf_hi) given to parallel_for
  pf_hi,
  pf_delay,     \* communication_delay
  pf_pc,        \* the block of the caller: "entry", "wait" (suspended at k), "exit"
  pf_nodes,     \* pf_nodes[n] = [pc, lo, hi]: the lazy_parallel_for_rec nodes
  pf_app,       \* pf_app[i]: how many times the body was applied to index i
  pf_obs,       \* pf_app as block k of the caller saw it
  \* ---- port-passing in-counter: the tree of ports and the tasks that hold them
  ip_nodes,     \* ip_nodes[p] = [st, parent, nb]: the incounter_nodes (nb is nb_removed_children)
  ip_task,      \* ip_task[t] = [st, port, cur, next, ret]: a task, its in-port and its decrement
  ip_err,       \* history: a decrement touched or deleted a node that was deleted
  \* ---- port maps of a parent and a child task under propagate_ports_for
  pm_parent,    \* pm_parent = [in, out]: the maps inports and outports of the parent
  pm_child,     \* the maps of the child
  pm_mode,      \* pm_mode = [in, out]: inport_mode and outport_mode of the child
  pm_frozen,    \* pm_frozen[k]: how many slots of the port that the parent holds in out-set k are frozen
  pm_pre,       \* history: the maps and the frozen slots when propagate_ports_for was called
  \* ---- port-passing out-set: the tree of outset_nodes, the tasks that hold its ports, the finished walk
  op_nodes,     \* op_nodes[n] = [st, target, c]: the outset_nodes; c[i] = [p, frozen] is children[i]
  op_task,      \* op_task[t] = [st, port, b, child, res, lost]: a task, its out-port, its fork or its force
  op_wk,        \* the walkers of the finished walk: finished() itself (0) and its tasks
  op_delay,     \* communication_delay
  op_fin,       \* "none", "running" (finished() is in its partial walk), "returned"
  op_notified,  \* history: op_notified[t] counts the decrements of task t by the walk
  op_added,     \* task -> number of add_node(consumer) calls made by its force
  op_err,       \* history: an assertion failed, or the walk met a slot that was frozen
  \* ---- SNZI tree of a distributed in-counter under threads that arrive and depart
  sz_x,         \* sz_x[n] = [c, v]: the counter of node n (one_half while an arrival from zero is on its way up) and its version
  sz_th,        \* sz_th[t] = [op, leaf, st, ops, res, ret, zeroed]: a thread, its operation and the calls it is in
  sz_tok,       \* sz_tok[l]: arrives at leaf l that returned and whose depart has not started
  sz_err,       \* history: a depart met a counter below one, or an undoing depart made the root zero
  \* ---- the in-counter microbenchmark: threads of benchmark_incounter_thread on a simple_incounter_wrapper
  b_counter,    \* simple_incounter_wrapper::counter
  b_stop,       \* should_stop
  b_th,         \* b_th[t] = [pc, rng, pend, c, incs, decs, bad, old, ret]: a thread, its locals, and what it called
  \* ---- port-passing nodes and the in-ports of their maps
  np_port,      \* np_port[p] = [in, parent, dec, by]: the incounter_nodes allocated so far, with the history of their decrements
  np_node,      \* np_node[n] = [st, inports, blocks]: a node, its map inports and the blocks it ran
  np_in,        \* np_in[k] = [st, owner, leaves]: an in-counter made by finish, the node it belongs to, its ports not yet decremented
  np_err        \* an assertion failed

simpleVars == <<head, sda, alive, ae_pc, ae_tgt, ae_orig, ae_res, ae_late,
                ae_incs, ae_decSelf, ae_decFin, fin_pc, fin_orig, fin_todo>>
faVars == <<fa_incs, fa_decs, fa_old, fa_by, fa_zero>>
tinVars == <<tin, sched>>
dagVars == <<d_prog, d_nodes, d_fut, d_ctr, d_err>>
dynOutVars == <<o_tree, o_delay, o_ins, o_wk, o_dec, o_fin>>
dynInVars == <<i_in, i_ch, i_w, i_stop, i_act, i_undisc>>
dynFreeVars == <<o_sda, o_dels, o_parx, o_fw, o_freed, o_err>>
pfVars == <<pf_lo, pf_hi, pf_delay, pf_pc, pf_nodes, pf_app, pf_obs>>
inPortVars == <<ip_nodes, ip_task, ip_err>>
portMapVars == <<pm_parent, pm_child, pm_mode, pm_frozen, pm_pre>>
outPortVars == <<op_nodes, op_task, op_wk, op_delay, op_fin, op_notified, op_added, op_err>>
snziVars == <<sz_x, sz_th, sz_tok, sz_err>>
benchVars == <<b_counter, b_stop, b_th>>
nodePortsVars == <<np_port, np_node, np_in, np_err>>
vars == <<tinVars, simpleVars, faVars, dagVars, dynOutVars, dynInVars, i_solo, dynFreeVars, pfVars, inPortVars, portMapVars, outPortVars, snziVars, benchVars, nodePortsVars>>

\* what each component leaves alone
simpleOthers == <<faVars, dagVars, dynOutVars, dynInVars, i_solo, dynFreeVars, pfVars, inPortVars, portMapVars, outPortVars, snziVars, benchVars, nodePortsVars>>
faOthers == <<simpleVars, dagVars, dynOutVars, dynInVars, i_solo, dynFreeVars, pfVars, inPortVars, portMapVars, outPortVars, snziVars, benchVars, nodePortsVars>>
dagOthers == <<tinVars, simpleVars, faVars, dynOutVars, dynInVars, i_solo, dynFreeVars, pfVars, inPortVars, portMapVars, outPortVars, snziVars, benchVars, nodePortsVars>>
dynOutOthers == <<tinVars, simpleVars, faVars, dagVars, dynInVars, i_solo, dynFreeVars, pfVars, inPortVars, portMapVars, outPortVars, snziVars, benchVars, nodePortsVars>>
dynFreeOthers == <<tinVars, simpleVars, faVars, dagVars, dynInVars, i_solo, pfVars, inPortVars, portMapVars, outPortVars, snziVars, benchVars, nodePortsVars>>
dynInOthers == <<tinVars, simpleVars, faVars, dagVars, dynOutVars, i_solo, dynFreeVars, pfVars, inPortVars, portMapVars, outPortVars, snziVars, benchVars, nodePortsVars>>
inPortOthers == <<tinVars, simpleVars, faVars, dagVars, dynOutVars, dynInVars, i_solo, dynFreeVars, pfVars, portMapVars, outPortVars, snziVars, benchVars, nodePortsVars>>
portMapOthers == <<tinVars, simpleVars, faVars, dagVars, dynOutVars, dynInVars, i_solo, dynFreeVars, pfVars, inPortVars, outPortVars, snziVars, benchVars, nodePortsVars>>
outPortOthers == <<tinVars, simpleVars, faVars, dagVars, dynOutVars, dynInVars, i_solo, dynFreeVars, pfVars, inPortVars, portMapVars, snziVars, benchVars, nodePortsVars>>
nodePortsOthers == <<tinVars, simpleVars, faVars, dagVars, dynOutVars, dynInVars, i_solo, dynFreeVars, pfVars, inPortVars, portMapVars, outPortVars, snziVars, benchVars>>
pfOthers == <<simpleVars, faVars, dagVars, dynOutVars, dynInVars, i_solo, dynFreeVars, inPortVars, portMapVars, outPortVars, snziVars, benchVars, nodePortsVars>>

(***************************************************************************)
(* increment_incounter / decrement_incounter: dispatch on the tag of the   *)
(* in-strategy word.                                                       *)
(***************************************************************************)
\* a plausible slip: the increment is not applied
IncrementWordLost(w) == w

\* the word after increment_incounter
IncrementWord(w) ==
  IF w.tag = UNARY_TAG THEN w
  ELSE [w EXCEPT !.val = @ + 1]

\* the word after decrement_incounter
DecrementWord(w) ==
  IF w.tag = UNARY_TAG THEN w
  ELSE [w EXCEPT !.val = @ - 1]

\* a plausible slip: scheduling on old == 0 instead of old == 1
DecrementSchedulesOnZero(w) ==
  \/ w.tag = UNARY_TAG
  \/ w.tag = FETCH_ADD_TAG /\ w.val = 0

\* whether decrement_incounter calls schedule(target), given the word it found
DecrementSchedules(w) ==
  \/ w.tag = UNARY_TAG
  \/ w.tag = FETCH_ADD_TAG /\ w.val = 1

increment_incounter(t) ==
  /\ tin[t].tag # READY_TAG
  /\ tin' = [tin EXCEPT ![t] = IncrementWord(@)]
  /\ UNCHANGED sched

decrement_incounter(t) ==
  /\ tin[t].tag # READY_TAG
  /\ tin' = [tin EXCEPT ![t] = DecrementWord(@)]
  /\ sched' = [sched EXCEPT ![t] = IF DecrementSchedules(tin[t]) THEN @ + 1 ELSE @]

(***************************************************************************)
(* simple_outset                                                           *)
(***************************************************************************)
\* the head after simple_outset's constructor
EmptyHead == [list |-> <<>>, fin |-> FALSE]
\* tagged_tag_with(nullptr, finished_code)
FinishedHead == [list |-> <<>>, fin |-> TRUE]

\* a plausible slip: insert ignores the finished tag
InsertSeesFinishedNever(orig) == FALSE

\* insert's test tagged_tag_of(orig) == finished_code
InsertSeesFinished(orig) == orig.fin

\* a plausible slip: add_edge forgets the compensating decrement
AddEdgeUndoesNever(res) == FALSE

\* add_edge's test outset_insert(...) == outset::insert_fail
AddEdgeUndoes(res) == res = insert_fail

\* a cell: the successor n, and the address of the cell (one per insert call)
Cell(w) == [n |-> ae_tgt[w], id |-> w]

TinOff == /\ tin = [t \in Targets |-> [tag |-> UNARY_TAG, val |-> 0]]
          /\ sched = [t \in Targets |-> 0]

SimpleOff ==
  /\ head = EmptyHead
  /\ sda = FALSE
  /\ alive = FALSE
  /\ ae_pc = [w \in EdgeWorkers |-> "off"]
  /\ ae_tgt = [w \in EdgeWorkers |-> 1]
  /\ ae_orig = [w \in EdgeWorkers |-> EmptyHead]
  /\ ae_res = [w \in EdgeWorkers |-> "none"]
  /\ ae_late = [w \in EdgeWorkers |-> FALSE]
  /\ ae_incs = [w \in EdgeWorkers |-> 0]
  /\ ae_decSelf = [w \in EdgeWorkers |-> 0]
  /\ ae_decFin = [w \in EdgeWorkers |-> 0]
  /\ fin_pc = "off"
  /\ fin_orig = EmptyHead
  /\ fin_todo = <<>>

FaOff ==
  /\ fa_incs = [w \in FaWorkers |-> 0]
  /\ fa_decs = [w \in FaWorkers |-> 0]
  /\ fa_old = [w \in FaWorkers |-> -1]
  /\ fa_by = [w \in FaWorkers |-> 0]
  /\ fa_zero = 0

(***************************************************************************)
(* Values of the DAG nodes (class direct::node).                           *)
(***************************************************************************)
Null == <<"null", 0, 0>>
TheFuture == <<"outset", 0, 0>>
Main == <<"main", 0, 0>>

NOOP_OUT == "NOOP"
UNARY_OUT == "UNARY"
OBJECT_OUT == "OBJECT"

uninitialized_block_id == -1
entry_block_id == 0

incounter_ready == [tag |-> READY_TAG, val |-> 0]
incounter_unary == [tag |-> UNARY_TAG, val |-> 0]
incounter_fetch_add == [tag |-> FETCH_ADD_TAG, val |-> 0]
\* edge_algorithm == edge_algorithm_simple
incounter_new == incounter_fetch_add
outset_unary == [tag |-> UNARY_OUT, p |-> Null]
outset_noop == [tag |-> NOOP_OUT, p |-> Null]
\* a simple_outset, of which the model holds one
outset_new == [tag |-> OBJECT_OUT, p |-> TheFuture]

\* node::node(), with the history fields of the model
FreshNode ==
  [cur |-> uninitialized_block_id, cont |-> entry_block_id,
   in |-> incounter_ready, out |-> outset_noop,
   sreq |-> 0, run |-> FALSE, wout |-> outset_noop, reuse |-> FALSE, dead |-> FALSE,
   nrun |-> 0,        \* history: blocks executed
   ks |-> 0,          \* history: schedule calls since the last prepare_for_transfer
   kby |-> "none",    \* history: who scheduled the node after its force
   ins |-> "none",    \* history: the result of the insertion made by its force
   notif |-> 0,       \* history: finished calls on a non-noop out-strategy
   early |-> FALSE,   \* history: a finished call was made at a block that transfers
   obs |-> <<>>,      \* history: what its exit block read
   arg |-> Null]      \* the node passed to the constructor (consumer, join)

NoFuture == [head |-> EmptyHead, sda |-> TRUE, alive |-> FALSE, todo |-> <<>>,
             nfin |-> 0]       \* history: calls of finish on the out-set

DagOff ==
  /\ d_prog = [name |-> "none", n |-> 0]
  /\ d_nodes = (Main :> FreshNode)
  /\ d_fut = NoFuture
  /\ d_ctr = [leaf |-> 0, interior |-> 0, pool |-> 0, fib_result |-> 0]
  /\ d_err = FALSE

(***************************************************************************)
(* The dyntree out-set: dyntree_outset::insert racing with the notify walk *)
(* of finish (notify_outset_nodes, notify_outset_tree_nodes_partial and    *)
(* the tasks notify_outset_tree_nodes_par_rec, which split).               *)
(*                                                                         *)
(* A tree node is named by a number: 0 is root, and the interior node that *)
(* the insert of successor s allocates is named s.  Successors 1..NbPre    *)
(* were inserted before the scenario starts; successors NbPre+1.. are      *)
(* inserted by concurrent callers.  Walker 0 is the caller of finish, the  *)
(* other walkers are the tasks.                                            *)
(***************************************************************************)
\* successors inserted, one after the other, before the race starts
NbPre == 3
\* concurrent callers of insert
NbInserters == 1
\* largest value of communication_delay
MaxCommDelay == 1

branching_factor == 2

Slots == 0..(branching_factor - 1)
PreSuccessors == 1..NbPre
Inserters == (NbPre + 1)..(NbPre + NbInserters)
\* the walkers: 0 is the caller of finish, the others are the tasks
\* notify_outset_tree_nodes_par_rec; a task owns at least one of the interior
\* nodes below the root, and there are fewer of those than successors
Walkers == 0..(NbPre + NbInserters - 1)

\* outset_node's tags
empty == "empty"
leaf == "leaf"
interior == "interior"
finished_empty == "finished_empty"
finished_leaf == "finished_leaf"
finished_interior == "finished_interior"

NullPtr == -1
\* tagged_tag_with(nullptr, empty)
EmptySlot == [tag |-> empty, p |-> NullPtr]
\* tagged_tag_with(leaf, outset_node::leaf)
LeafSlot(s) == [tag |-> leaf, p |-> s]
InteriorSlot(n) == [tag |-> interior, p |-> n]

\* outset_node::outset_node()
outset_node_empty == [i \in Slots |-> EmptySlot]
\* a plausible slip: the constructor stores child1 only
outset_node_of_child1(child1, child2) ==
  [i \in Slots |-> IF i = 0 THEN child1 ELSE EmptySlot]

\* outset_node(child1, child2): init(), children[0] = child1, children[1] = child2
outset_node_of(child1, child2) ==
  [i \in Slots |-> IF i = 0 THEN child1 ELSE IF i = 1 THEN child2 ELSE EmptySlot]

\* outset_node::make_finished; its assert(false) is the OTHER case, which the
\* walk does not reach (C8_WalkNotifiesOnce)
make_finished(p) ==
  CASE p.tag = empty -> [tag |-> finished_empty, p |-> p.p]
    [] p.tag = leaf -> [tag |-> finished_leaf, p |-> p.p]
    [] p.tag = interior -> [tag |-> finished_interior, p |-> p.p]
    [] OTHER -> p

IsFinishedTag(tag) == tag \in {finished_empty, finished_leaf, finished_interior}

\* a plausible slip: insert also gives up on an empty slot
InsertFailsOnEmpty(tag) == tag \in {empty, finished_empty, finished_leaf, finished_interior}

\* dyntree_outset::insert: the test that makes it return insert_fail
InsertFails(tag) == IsFinishedTag(tag)

\* dyntree_outset::dyntree_outset()
FreshTree == (0 :> outset_node_empty)

\* dyntree_outset::insert of successor s run alone from node cur of tree t:
\* the trees it may leave, over the choices of random_int
RECURSIVE SeqInsert(_, _, _)
SeqInsert(t, cur, s) ==
  UNION { LET n == t[cur][i] IN
          CASE n.tag = empty -> {[t EXCEPT ![cur][i] = LeafSlot(s)]}
            [] n.tag = leaf ->
                 {(s :> outset_node_of(LeafSlot(s), n))
                    @@ [t EXCEPT ![cur][i] = InteriorSlot(s)]}
            [] n.tag = interior -> SeqInsert(t, n.p, s)
            [] OTHER -> {}
        : i \in Slots }

RECURSIVE TreesAfter(_)
TreesAfter(k) ==
  IF k = 0 THEN {FreshTree}
  ELSE UNION {SeqInsert(t, 0, k) : t \in TreesAfter(k - 1)}

IdleInserter == [pc |-> "idle", cur |-> 0, i |-> 0, n |-> EmptySlot, res |-> "none",
                 late |-> FALSE]
NoWalker == [pc |-> "unborn", todo |-> <<>>, cur |-> 0, i |-> 0, k |-> 0]

\* no deallocation takes place: the out-set is a future that nobody deallocates
DynFreeOff ==
  /\ o_sda = FALSE
  /\ o_dels = 0
  /\ o_parx = FALSE
  /\ o_fw = [j \in Walkers |-> NoWalker]
  /\ o_freed = {}
  /\ o_err = "none"

DynOutOff ==
  /\ DynFreeOff
  /\ o_tree = FreshTree
  /\ o_delay = 0
  /\ o_ins = [w \in Inserters |-> [IdleInserter EXCEPT !.pc = "off"]]
  /\ o_wk = [j \in Walkers |-> NoWalker]
  /\ o_dec = [s \in PreSuccessors \cup Inserters |-> 0]
  /\ o_fin = "off"


(***************************************************************************)
(* The dyntree in-counter (dyntree_incounter) under the threads of the     *)
(* in-counter microbenchmark.  A child slot holds a tagged pointer         *)
(* [p, m]: p a node or NullPtr, m the minus tag.  The field in is a plain  *)
(* pointer: a worker's read and its later write of in are separate steps.  *)
(* The node that worker w allocates in its k-th increment is named         *)
(* IncNode(w, k); the root of the out tree is node 0.                      *)
(***************************************************************************)
\* threads of the microbenchmark
NbInWorkers == 2
\* turns of the main loop of benchmark_incounter_thread, per thread
MaxLoopOps == 2

InWorkers == 1..NbInWorkers
IncNode(w, k) == w * (MaxLoopOps + 1) + k
OutRoot == 0

activated == "activated"
not_activated == "not_activated"

\* a child slot: nullptr, minus(), a pointer, a pointer with the minus tag
NullChild == [p |-> NullPtr, m |-> FALSE]
minus == [p |-> NullPtr, m |-> TRUE]
ChildPtr(n) == [p |-> n, m |-> FALSE]
MinusPtr(n) == [p |-> n, m |-> TRUE]

\* incounter_node::init(v)
incounter_node(v) == [i \in Slots |-> v]

\* the slots of the out tree below node nd whose pointer is null: the places
\* where add_to_out can attach a node
RECURSIVE OutFree(_, _)
OutFree(ch, nd) ==
  UNION { IF ch[nd][i].p = NullPtr THEN {<<nd, i>>} ELSE OutFree(ch, ch[nd][i].p)
          : i \in Slots }

IdleInWorker ==
  [pc |-> "top", pend |-> 0, c |-> 0, drain |-> FALSE, nincs |-> 0, unm |-> 0,
   lf |-> NullPtr, seen |-> NullPtr, cur |-> NullPtr, i |-> 0,
   tgt |-> NullPtr, root |-> FALSE, k |-> 0, ret |-> "none"]

DynInOff ==
  /\ i_in = NullPtr
  /\ i_ch = (OutRoot :> incounter_node(minus))
  /\ i_w = [w \in InWorkers |-> [IdleInWorker EXCEPT !.pc = "off"]]
  /\ i_stop = FALSE
  /\ i_act = 0
  /\ i_undisc = FALSE
  /\ i_solo = 0

(***************************************************************************)
(* parallel_for: the caller (parallel_for_test) and the nodes              *)
(* lazy_parallel_for_rec that run the range.  The caller is target Join of *)
(* the in-strategy words.                                                  *)
(***************************************************************************)
MaxPfRange == 4
PfIndices == 0..(MaxPfRange - 1)
\* a split of a node with at least two indices leaves both halves non-empty,
\* so there are never more nodes than indices
PfNodes == 0..(MaxPfRange - 1)
Join == 1
NoPfNode == [pc |-> "unborn", lo |-> 0, hi |-> 0]

PfOff ==
  /\ pf_lo = 0
  /\ pf_hi = 0
  /\ pf_delay = 0
  /\ pf_pc = "off"
  /\ pf_nodes = [n \in PfNodes |-> NoPfNode]
  /\ pf_app = [i \in PfIndices |-> 0]
  /\ pf_obs = <<>>

(***************************************************************************)
(* The port-passing in-counter (portpassing::incounter): a tree of         *)
(* incounter_nodes that grows at its leaves, the ports.  A task holds one  *)
(* port of the in-counter in its map inports; a fork of the task gives the *)
(* two tasks two new ports below the old one.                              *)
(***************************************************************************)
MaxForks == 2
InPorts == 0..(2 * MaxForks)
PortTasks == 0..MaxForks
NoInPort == [st |-> "unborn", parent |-> NullPtr, nb |-> 0]
NoPortTask == [st |-> "unborn", port |-> NullPtr, cur |-> NullPtr, next |-> NullPtr,
               ret |-> "none"]

InPortOff ==
  /\ ip_nodes = [p \in InPorts |-> NoInPort]
  /\ ip_task = [t \in PortTasks |-> NoPortTask]
  /\ ip_err = FALSE

(***************************************************************************)
(* The port maps of the tasks (inport_map_type, outport_map_type): a map   *)
(* is a function from the in-counters, or the out-sets, that it has as     *)
(* keys to the ports.                                                      *)
(***************************************************************************)
NbPortKeys == 2
PortKeys == 1..NbPortKeys
port_passing_default == "default"
port_passing_intersection == "intersection"
port_passing_difference == "difference"
PortModes == {port_passing_default, port_passing_intersection, port_passing_difference}
EmptyMap == [k \in {} |-> NullPtr]
NoPortMaps == [in |-> EmptyMap, out |-> EmptyMap]

PortMapOff ==
  /\ pm_parent = NoPortMaps
  /\ pm_child = NoPortMaps
  /\ pm_mode = [in |-> port_passing_default, out |-> port_passing_default]
  /\ pm_frozen = [k \in PortKeys |-> 0]
  /\ pm_pre = <<>>

(***************************************************************************)
(* The port-passing out-set (portpassing::outset): a tree of outset_nodes  *)
(* with two children each.  A task holds a port, a node without children;  *)
(* fork2 puts two new ports below it, insert puts below it a node that     *)
(* carries the target.  A child pointer carries the tag frozen_tag once    *)
(* the finished walk has passed.                                           *)
(***************************************************************************)
NbOutForks == 1
OutTasks == 0..NbOutForks
\* the root, two ports for a fork, one node for the insert of every task
OutPorts == 0..(3 * NbOutForks + 1)
OutWalkers == 0..(NbOutForks + 1)
OutRootPort == 0
NullChild2 == [p |-> NullPtr, frozen |-> FALSE]
\* outset_node::outset_node()
NewOutPort == [st |-> "live", target |-> NullPtr, c |-> [i \in 0..1 |-> NullChild2]]
NoOutPort == [NewOutPort EXCEPT !.st = "unborn"]
NoOutTask == [st |-> "unborn", port |-> NullPtr, b |-> NullPtr, child |-> NullPtr,
              res |-> "none", lost |-> FALSE]

OutPortOff ==
  /\ op_nodes = [n \in OutPorts |-> NoOutPort]
  /\ op_task = [t \in OutTasks |-> NoOutTask]
  /\ op_wk = [j \in OutWalkers |-> NoWalker]
  /\ op_delay = 0
  /\ op_fin = "off"
  /\ op_notified = [t \in OutTasks |-> 0]
  /\ op_added = [t \in OutTasks |-> 0]
  /\ op_err = FALSE

\* the SNZI tree (snzi.hpp): node 0 is the root, the parent of node n is
\* (n - 1) \div default_branching_factor, the leaves are the nodes without child
SnziLast == 2
NbSnziThreads == 2
MaxSnziOps == 2
default_branching_factor == 2
SnziNodes == 0..SnziLast
SnziThreads == 1..NbSnziThreads
SnziParent(n) == (n - 1) \div default_branching_factor
SnziLeaves == {n \in SnziNodes : n * default_branching_factor + 1 > SnziLast}
one_half == -1
NoSnziThread == [op |-> "none", leaf |-> NullPtr, st |-> <<>>, ops |-> 0,
                 res |-> FALSE, ret |-> "none", zeroed |-> FALSE]

SnziOff ==
  /\ sz_x = [n \in SnziNodes |-> [c |-> 0, v |-> 0]]
  /\ sz_th = [t \in SnziThreads |-> NoSnziThread]
  /\ sz_tok = [l \in SnziLeaves |-> 0]
  /\ sz_err = FALSE

\* the threads of the microbenchmark, the iterations of the main loop that a
\* thread makes at most before should_stop is set, and the seeds
NbBenchThreads == 2
MaxBenchOps == 3
MaxSeed == 2
BenchThreads == 1..NbBenchThreads
\* an unsigned int as its two halves of 16 bits
Half == 65536
U32(n) == [hi |-> n \div Half, lo |-> n % Half]
NoBenchThread == [pc |-> "off", rng |-> U32(0), pend |-> 0, c |-> 0, incs |-> 0,
                  decs |-> 0, bad |-> FALSE, old |-> 0, ret |-> FALSE]

BenchOff ==
  /\ b_counter = 0
  /\ b_stop = FALSE
  /\ b_th = [t \in BenchThreads |-> NoBenchThread]

MaxPortNodes == 4
MaxPortCounters == 2
PortNodeIds == 0..(MaxPortNodes - 1)
PortCounters == 1..MaxPortCounters
NoPortMap == [k \in {} |-> 0]
NoPortNode == [st |-> "unborn", inports |-> NoPortMap, blocks |-> 0]
NoPortCounter == [st |-> "unborn", owner |-> 0, leaves |-> 0]

NodePortsOff ==
  /\ np_port = <<>>
  /\ np_node = [n \in PortNodeIds |-> NoPortNode]
  /\ np_in = [k \in PortCounters |-> NoPortCounter]
  /\ np_err = FALSE

\* An out-set made by allocate_future (sda = FALSE) is the one that add_edge
\* callers (force) insert into; an out-set made by prepare_node(n) keeps
\* sda = TRUE and has no inserters.
InitSimple ==
  /\ tin \in [Targets -> {[tag |-> UNARY_TAG, val |-> 0],
                          [tag |-> FETCH_ADD_TAG, val |-> 0]}]
  /\ sched = [t \in Targets |-> 0]
  /\ head = EmptyHead
  /\ sda \in BOOLEAN
  /\ alive = TRUE
  /\ ae_pc = [w \in EdgeWorkers |-> IF sda THEN "off" ELSE "idle"]
  /\ ae_tgt \in [EdgeWorkers -> Targets]
  /\ ae_orig = [w \in EdgeWorkers |-> EmptyHead]
  /\ ae_res = [w \in EdgeWorkers |-> "none"]
  /\ ae_late = [w \in EdgeWorkers |-> FALSE]
  /\ ae_incs = [w \in EdgeWorkers |-> 0]
  /\ ae_decSelf = [w \in EdgeWorkers |-> 0]
  /\ ae_decFin = [w \in EdgeWorkers |-> 0]
  /\ fin_pc = "idle"
  /\ fin_orig = EmptyHead
  /\ fin_todo = <<>>
  /\ FaOff
  /\ DagOff
  /\ DynOutOff
  /\ DynInOff
  /\ PfOff
  /\ InPortOff
  /\ PortMapOff
  /\ OutPortOff
  /\ SnziOff
  /\ BenchOff
  /\ NodePortsOff

\* add_edge: increment_incounter(source, target, target_in)
AE_Increment(w) ==
  /\ ae_pc[w] = "idle"
  /\ increment_incounter(ae_tgt[w])
  /\ ae_incs' = [ae_incs EXCEPT ![w] = @ + 1]
  /\ ae_pc' = [ae_pc EXCEPT ![w] = "insert"]
  /\ UNCHANGED <<head, sda, alive, ae_tgt, ae_orig, ae_res, ae_late, ae_decSelf,
                 ae_decFin, fin_pc, fin_orig, fin_todo>>
  /\ UNCHANGED simpleOthers

\* add_edge calls outset_insert, which calls simple_outset::insert: the cell is
\* allocated
AE_Insert(w) ==
  /\ ae_pc[w] = "insert"
  /\ alive
  /\ ae_late' = [ae_late EXCEPT ![w] = head.fin]
  /\ ae_pc' = [ae_pc EXCEPT ![w] = "load"]
  /\ UNCHANGED <<tinVars, head, sda, alive, ae_tgt, ae_orig, ae_res, ae_incs,
                 ae_decSelf, ae_decFin, fin_pc, fin_orig, fin_todo>>
  /\ UNCHANGED simpleOthers

\* simple_outset::insert: orig = head.load(), and the test of the finished tag
AE_Load(w) ==
  /\ ae_pc[w] = "load"
  /\ alive
  /\ ae_orig' = [ae_orig EXCEPT ![w] = head]
  /\ IF InsertSeesFinished(head)
       THEN /\ ae_res' = [ae_res EXCEPT ![w] = insert_fail]
            /\ ae_pc' = [ae_pc EXCEPT ![w] =
                           IF AddEdgeUndoes(insert_fail) THEN "undo" ELSE "done"]
       ELSE /\ ae_pc' = [ae_pc EXCEPT ![w] = "cas"]
            /\ UNCHANGED ae_res
  /\ UNCHANGED <<tinVars, head, sda, alive, ae_tgt, ae_late, ae_incs, ae_decSelf,
                 ae_decFin, fin_pc, fin_orig, fin_todo>>
  /\ UNCHANGED simpleOthers

\* simple_outset::insert: head.compare_exchange_strong(orig, cell)
AE_Cas(w) ==
  /\ ae_pc[w] = "cas"
  /\ alive
  /\ IF head = ae_orig[w]
       THEN /\ head' = [list |-> <<Cell(w)>> \o ae_orig[w].list, fin |-> FALSE]
            /\ ae_res' = [ae_res EXCEPT ![w] = insert_success]
            /\ ae_pc' = [ae_pc EXCEPT ![w] = "done"]
       ELSE /\ ae_pc' = [ae_pc EXCEPT ![w] = "load"]
            /\ UNCHANGED <<head, ae_res>>
  /\ UNCHANGED <<tinVars, sda, alive, ae_tgt, ae_orig, ae_late, ae_incs, ae_decSelf,
                 ae_decFin, fin_pc, fin_orig, fin_todo>>
  /\ UNCHANGED simpleOthers

\* add_edge: the insertion failed, decrement_incounter(source, target, target_in)
AE_Undo(w) ==
  /\ ae_pc[w] = "undo"
  /\ decrement_incounter(ae_tgt[w])
  /\ ae_decSelf' = [ae_decSelf EXCEPT ![w] = @ + 1]
  /\ ae_pc' = [ae_pc EXCEPT ![w] = "done"]
  /\ UNCHANGED <<head, sda, alive, ae_tgt, ae_orig, ae_res, ae_late, ae_incs,
                 ae_decFin, fin_pc, fin_orig, fin_todo>>
  /\ UNCHANGED simpleOthers

\* simple_outset::finish: orig = head.load()
Fin_Load ==
  /\ fin_pc \in {"idle", "load"}
  /\ fin_orig' = head
  /\ fin_pc' = "cas"
  /\ UNCHANGED <<tinVars, head, sda, alive, ae_pc, ae_tgt, ae_orig, ae_res, ae_late,
                 ae_incs, ae_decSelf, ae_decFin, fin_todo>>
  /\ UNCHANGED simpleOthers

\* a plausible slip: finish stores the finished head without comparing
Fin_CasBlind ==
  /\ fin_pc = "cas"
  /\ head' = FinishedHead
  /\ fin_todo' = fin_orig.list
  /\ fin_pc' = "walk"
  /\ UNCHANGED <<tinVars, sda, alive, ae_pc, ae_tgt, ae_orig, ae_res, ae_late,
                 ae_incs, ae_decSelf, ae_decFin, fin_orig>>
  /\ UNCHANGED simpleOthers

\* simple_outset::finish: head.compare_exchange_strong(orig, (nullptr, finished))
Fin_Cas ==
  /\ fin_pc = "cas"
  /\ IF head = fin_orig
       THEN /\ head' = FinishedHead
            /\ fin_todo' = fin_orig.list
            /\ fin_pc' = "walk"
       ELSE /\ fin_pc' = "load"
            /\ UNCHANGED <<head, fin_todo>>
  /\ UNCHANGED <<tinVars, sda, alive, ae_pc, ae_tgt, ae_orig, ae_res, ae_late,
                 ae_incs, ae_decSelf, ae_decFin, fin_orig>>
  /\ UNCHANGED simpleOthers

\* simple_outset::finish: one turn of the loop over the captured list
Fin_Walk ==
  /\ fin_pc = "walk"
  /\ fin_todo # <<>>
  /\ decrement_incounter(Head(fin_todo).n)
  /\ ae_decFin' = [ae_decFin EXCEPT ![Head(fin_todo).id] = @ + 1]
  /\ fin_todo' = Tail(fin_todo)
  /\ UNCHANGED <<head, sda, alive, ae_pc, ae_tgt, ae_orig, ae_res, ae_late,
                 ae_incs, ae_decSelf, fin_pc, fin_orig>>
  /\ UNCHANGED simpleOthers

\* simple_outset::finish: if (should_deallocate_automatically) delete this.
\* The member is read from the object; if deallocate_future has deleted the
\* object, the read is of freed memory and may give either value.
Fin_Dealloc ==
  /\ fin_pc = "walk"
  /\ fin_todo = <<>>
  /\ \E v \in (IF alive THEN {sda} ELSE BOOLEAN) : alive' = (IF v THEN FALSE ELSE alive)
  /\ fin_pc' = "done"
  /\ UNCHANGED <<tinVars, head, sda, ae_pc, ae_tgt, ae_orig, ae_res, ae_late,
                 ae_incs, ae_decSelf, ae_decFin, fin_orig, fin_todo>>
  /\ UNCHANGED simpleOthers

NextSimple ==
  \/ \E w \in EdgeWorkers : AE_Increment(w)
  \/ \E w \in EdgeWorkers : AE_Insert(w)
  \/ \E w \in EdgeWorkers : AE_Load(w)
  \/ \E w \in EdgeWorkers : AE_Cas(w)
  \/ \E w \in EdgeWorkers : AE_Undo(w)
  \/ Fin_Load
  \/ Fin_Cas
  \/ Fin_Walk
  \/ Fin_Dealloc

SpecSimple == InitSimple /\ [][NextSimple]_vars

(***************************************************************************)
(* The fetch-add in-counter alone: workers issue increment_incounter and   *)
(* decrement_incounter on target FaTarget, whose in-strategy word is the   *)
(* counter; a worker decrements only what it has incremented.              *)
(***************************************************************************)
FaTarget == CHOOSE t \in Targets : \A u \in Targets : t <= u

InitFetchAdd ==
  /\ tin = [t \in Targets |-> [tag |-> FETCH_ADD_TAG, val |-> 0]]
  /\ sched = [t \in Targets |-> 0]
  /\ SimpleOff
  /\ FaOff
  /\ DagOff
  /\ DynOutOff
  /\ DynInOff
  /\ PfOff
  /\ InPortOff
  /\ PortMapOff
  /\ OutPortOff
  /\ SnziOff
  /\ BenchOff
  /\ NodePortsOff

FA_Increment(w) ==
  /\ fa_incs[w] < NbFaRounds
  /\ increment_incounter(FaTarget)
  /\ fa_incs' = [fa_incs EXCEPT ![w] = @ + 1]
  /\ UNCHANGED <<fa_decs, fa_old, fa_by, fa_zero>>
  /\ UNCHANGED faOthers

FA_Decrement(w) ==
  /\ fa_decs[w] < fa_incs[w]
  /\ decrement_incounter(FaTarget)
  /\ fa_decs' = [fa_decs EXCEPT ![w] = @ + 1]
  /\ fa_old' = [fa_old EXCEPT ![w] = tin[FaTarget].val]
  /\ fa_by' = [fa_by EXCEPT ![w] = @ + (sched'[FaTarget] - sched[FaTarget])]
  /\ fa_zero' = fa_zero + (IF tin'[FaTarget].val = 0 THEN 1 ELSE 0)
  /\ UNCHANGED fa_incs
  /\ UNCHANGED faOthers

NextFetchAdd ==
  \/ \E w \in FaWorkers : FA_Increment(w)
  \/ \E w \in FaWorkers : FA_Decrement(w)

SpecFetchAdd == InitFetchAdd /\ [][NextFetchAdd]_vars

(***************************************************************************)
(* The DAG node and its combinators (class direct::node), on the simple    *)
(* edge algorithm: incounter_new is the fetch-add word, outset_new is a    *)
(* simple_outset.  A node is named by a triple <<class, lo, hi>>.          *)
(*                                                                         *)
(* The combinators are functions on the record                             *)
(*   S = [nodes, fut, ctr, err]                                            *)
(* and are composed as the code composes them.  The worker that executes a *)
(* node is kept in the node's record: run (a worker is executing it), wout *)
(* (that worker's current out-strategy: my_sched()->get_outstrategy()) and *)
(* reuse (reuse_calling_thread was called in this block).                  *)
(***************************************************************************)
\* new T(..., arg)
new_node(S, n, arg) == [S EXCEPT !.nodes = (n :> [FreshNode EXCEPT !.arg = arg]) @@ @]

prepare_node(S, n, in, out) ==
  [S EXCEPT !.nodes[n].in = in, !.nodes[n].out = out]

\* pasl::sched::instrategy::schedule
schedule(S, n) ==
  [S EXCEPT !.nodes[n].sreq = @ + 1, !.nodes[n].ks = @ + 1]

\* pasl::sched::threaddag::add_thread: the node is runnable when its in-counter
\* is zero
add_node(S, n) ==
  LET w == S.nodes[n].in IN
  IF w.tag = READY_TAG \/ (w.tag = FETCH_ADD_TAG /\ w.val = 0)
    THEN schedule(S, n)
    ELSE S

increment_incounter_S(S, target) ==
  LET w == S.nodes[target].in IN
  IF w.tag = READY_TAG
    THEN [S EXCEPT !.err = TRUE]
    ELSE [S EXCEPT !.nodes[target].in = IncrementWord(w)]

\* a plausible slip: no test of READY_TAG, the word is handled as a counter
decrement_incounter_unchecked(S, target) ==
  LET w == S.nodes[target].in
      S1 == [S EXCEPT !.nodes[target].in = DecrementWord(w)]
  IN IF DecrementSchedules(w) THEN schedule(S1, target) ELSE S1

decrement_incounter_S(S, target) ==
  LET w == S.nodes[target].in IN
  IF w.tag = READY_TAG
    THEN [S EXCEPT !.err = TRUE]
    ELSE LET S1 == [S EXCEPT !.nodes[target].in = DecrementWord(w)] IN
         IF DecrementSchedules(w) THEN schedule(S1, target) ELSE S1

\* simple_outset::insert run to its return: the value of head it last loaded
\* decides the result
simple_insert_status(S) ==
  IF InsertSeesFinished(S.fut.head) THEN insert_fail ELSE insert_success

simple_insert(S, n) ==
  IF simple_insert_status(S) = insert_fail
    THEN S
    ELSE [S EXCEPT !.fut.head = [list |-> <<n>> \o @.list, fin |-> FALSE]]

outset_insert_status(S, source_out) ==
  IF source_out.tag = UNARY_OUT THEN insert_success
  ELSE simple_insert_status(S)

outset_insert(S, source, source_out, target) ==
  IF source_out.tag = NOOP_OUT THEN [S EXCEPT !.err = TRUE]
  ELSE IF source_out.tag = UNARY_OUT
    THEN [S EXCEPT !.nodes[source].out = [tag |-> UNARY_OUT, p |-> target]]
    ELSE IF S.fut.alive THEN simple_insert(S, target) ELSE [S EXCEPT !.err = TRUE]

\* a plausible slip: the edge is inserted without the increment
add_edge_no_increment(S, source, source_out, target) ==
  outset_insert(S, source, source_out, target)

add_edge(S, source, source_out, target) ==
  LET S1 == increment_incounter_S(S, target)
      st == outset_insert_status(S1, source_out)
      S2 == outset_insert(S1, source, source_out, target)
  IN IF AddEdgeUndoes(st) THEN decrement_incounter_S(S2, target) ELSE S2

\* a plausible slip: the worker keeps the out-strategy it handed on
capture_outset_keep(S, self) == S

\* capture_outset: the state after sched->set_outstrategy(outset_noop())
capture_outset(S, self) == [S EXCEPT !.nodes[self].wout = outset_noop]

\* capture_outset: the out-strategy it returns
captured_outset(S, self) == S.nodes[self].wout

join_with(S, self, in) ==
  prepare_node(capture_outset(S, self), self, in, captured_outset(S, self))

continue_with(S, self) ==
  add_node(join_with(S, self, incounter_ready), self)

prepare_for_transfer(S, self, target) ==
  [S EXCEPT !.nodes[self].reuse = TRUE, !.nodes[self].cont = target,
            !.nodes[self].ks = 0]

jump_to(S, self, k) == continue_with(prepare_for_transfer(S, self, k), self)

\* a plausible slip: async forgets the edge from the producer to the consumer
async_without_edge(S, self, producer, consumer, k) ==
  LET S1 == prepare_node(S, producer, incounter_ready, outset_unary)
      S3 == jump_to(S1, self, k)
  IN add_node(S3, producer)

async(S, self, producer, consumer, k) ==
  LET S1 == prepare_node(S, producer, incounter_ready, outset_unary)
      S2 == add_edge(S1, producer, S1.nodes[producer].out, consumer)
      S3 == jump_to(S2, self, k)
  IN add_node(S3, producer)

finish(S, self, producer, k) ==
  LET S1 == prepare_node(S, producer, incounter_ready, outset_unary)
      S2 == prepare_for_transfer(S1, self, k)
      S3 == join_with(S2, self, incounter_new)
      S4 == add_edge(S3, producer, S3.nodes[producer].out, self)
  IN add_node(S4, producer)

call(S, self, target, k) == finish(S, self, target, k)

\* a plausible slip: detach leaves the out-strategy with the worker
detach_keeps_outstrategy(S, self, k) == prepare_for_transfer(S, self, k)

detach(S, self, k) == join_with(prepare_for_transfer(S, self, k), self, incounter_ready)

\* allocate_future followed by future(producer, producer_out, k)
future(S, self, producer, k) ==
  LET S0 == [S EXCEPT !.fut = [NoFuture EXCEPT !.sda = FALSE, !.alive = TRUE]]
      S1 == prepare_node(S0, producer, incounter_ready, outset_new)
      S2 == jump_to(S1, self, k)
  IN add_node(S2, producer)

force(S, self, producer_out, k) ==
  LET S1 == prepare_for_transfer(S, self, k)
      S2 == join_with(S1, self, incounter_unary)
      st == outset_insert_status(S2, producer_out)
      S3 == add_edge(S2, Null, producer_out, self)
  IN [S3 EXCEPT !.nodes[self].ins = st,
                !.nodes[self].kby = IF st = insert_fail THEN "force" ELSE @]

deallocate_future(S) ==
  IF S.fut.sda THEN [S EXCEPT !.err = TRUE] ELSE [S EXCEPT !.fut.alive = FALSE]

(***************************************************************************)
(* The benchmark programs that drive the combinators: async_bintree and    *)
(* future_pool (with eager_parallel_for).                                  *)
(***************************************************************************)
\* largest n of async_bintree(n) and future_pool(n)
MaxN == 2

fib_input == 22

RECURSIVE fib_from(_, _, _)
fib_from(k, a, b) == IF k = 0 THEN a ELSE fib_from(k - 1, b, a + b)
\* fib(n), by its recurrence
fib(n) == fib_from(n, 0, 1)

Mid(lo, hi) == (lo + hi) \div 2

async_bintree_body(S, n) ==
  IF S.nodes[n].cur = 0
    THEN LET p == <<"abr", 0, n[3]>>
             S1 == [S EXCEPT !.ctr.leaf = 0, !.ctr.interior = 0]
         IN finish(new_node(S1, p, n), n, p, 1)
    ELSE [S EXCEPT !.nodes[n].obs = <<S.ctr.leaf, S.ctr.interior>>]

async_bintree_rec_body(S, n) ==
  LET lo == n[2]
      hi == n[3]
      consumer == S.nodes[n].arg
      mid == Mid(lo, hi)
  IN CASE S.nodes[n].cur = 0 ->
            IF hi - lo = 0 THEN S
            ELSE IF hi - lo = 1 THEN [S EXCEPT !.ctr.leaf = @ + 1]
            ELSE LET p == <<"abr", lo, mid>>
                     S1 == [S EXCEPT !.ctr.interior = @ + 1]
                 IN async(new_node(S1, p, consumer), n, p, consumer, 1)
       [] S.nodes[n].cur = 1 ->
            LET p == <<"abr", mid, hi>>
            IN async(new_node(S, p, consumer), n, p, consumer, 2)
       [] OTHER -> S

future_body_body(S, n) ==
  IF S.nodes[n].cur = 0 THEN [S EXCEPT !.ctr.fib_result = fib(fib_input)] ELSE S

future_reader_body(S, n) ==
  IF S.nodes[n].cur = 0
    THEN force(S, n, outset_new, 1)
    ELSE [S EXCEPT !.ctr.pool = @ + 1, !.nodes[n].obs = <<S.ctr.fib_result>>]

eager_parallel_for_rec_body(S, n) ==
  LET lo == n[2]
      hi == n[3]
      join == S.nodes[n].arg
      mid == Mid(hi, lo)
  IN CASE S.nodes[n].cur = 0 ->
            IF hi - lo = 0 THEN S
            ELSE IF hi - lo = 1
              THEN LET p == <<"fr", lo, hi>>
                   IN call(new_node(S, p, Null), n, p, 2)
              ELSE LET p == <<"epr", lo, mid>>
                   IN async(new_node(S, p, join), n, p, join, 1)
       [] S.nodes[n].cur = 1 ->
            LET p == <<"epr", mid, hi>>
            IN async(new_node(S, p, join), n, p, join, 2)
       [] OTHER -> S

eager_parallel_for_body(S, n) ==
  IF S.nodes[n].cur = 0
    THEN LET p == <<"epr", n[2], n[3]>>
         IN finish(new_node(S, p, n), n, p, 1)
    ELSE S

future_pool_body(S, n) ==
  CASE S.nodes[n].cur = 0 ->
         LET p == <<"fb", 0, 0>>
         IN future(new_node(S, p, Null), n, p, 1)
    [] S.nodes[n].cur = 1 ->
         LET p == <<"epf", 0, n[3]>>
         IN call(new_node(S, p, Null), n, p, 2)
    [] OTHER ->
         [deallocate_future(S) EXCEPT !.nodes[n].obs = <<S.ctr.pool>>]

\* ---- the edge-throughput microbenchmark

\* the loop nodes and the force nodes that the program may create
MaxEdgeLoops == 3
MaxEdgeForces == 2

\* tagged_tag_with((node*)nullptr, 1)
TaggedNull == <<"null", 1, 0>>
\* any other value that the member buffer, which no constructor initializes,
\* may hold when the program starts
WildNode == <<"wild", 0, 0>>
TheProducer == <<"etf", 0, 0>>
EdgeLoop(i) == <<"etl", i, 0>>
EdgeForce(j) == <<"etfo", j, 0>>

edge_throughput_microbench_force_body(S, n) ==
  IF S.nodes[n].cur = 0
    THEN force([S EXCEPT !.ctr.forces = @ + 1], n, outset_new, 1)
    ELSE S

edge_throughput_microbench_loop_body(S, n) ==
  LET join == S.nodes[n].arg
      orig == S.ctr.buffer
  IN CASE S.nodes[n].cur = 0 ->
            LET p == EdgeForce(S.ctr.nf)
                S1 == [S EXCEPT !.ctr.nf = @ + 1]
            IN async(new_node(S1, p, Null), n, p, join, 1)
       [] S.nodes[n].cur = 1 ->
            LET p == EdgeLoop(S.ctr.nl)
                S1 == [S EXCEPT !.ctr.nl = @ + 1]
            IN async(new_node(S1, p, join), n, p, join, 2)
       [] S.nodes[n].cur = 2 ->
            IF orig = Null THEN jump_to(S, n, 0)
            ELSE IF orig = TaggedNull THEN S
            ELSE IF orig = WildNode
              THEN [S EXCEPT !.ctr.buffer = TaggedNull, !.err = TRUE]
            ELSE call([S EXCEPT !.ctr.buffer = TaggedNull], n, orig, 3)
       [] OTHER -> S

\* the entry block starts the timer thread and detaches
edge_throughput_microbench_future_body(S, n) ==
  IF S.nodes[n].cur = 0
    THEN detach([S EXCEPT !.ctr.timer = "set"], n, 1)
    ELSE S

edge_throughput_microbench_body(S, n) ==
  CASE S.nodes[n].cur = 0 ->
         future(new_node([S EXCEPT !.ctr.forces = 0], TheProducer, Null), n,
                TheProducer, 1)
    [] S.nodes[n].cur = 1 ->
         LET p == EdgeLoop(S.ctr.nl)
             S1 == [S EXCEPT !.ctr.nl = @ + 1]
         IN finish(new_node(S1, p, n), n, p, 2)
    [] OTHER -> [S EXCEPT !.nodes[n].obs = <<S.ctr.forces>>]

\* the blocks that the node of SpecRun may transfer to
MaxBlock == 2
Blocks == entry_block_id..MaxBlock

\* a body that counts its executions and, at the block it runs, transfers to the
\* block that the program names for it (jump_to, or prepare_for_transfer alone)
\* or returns
counting_body(S, n) ==
  LET k == d_prog.tr[S.nodes[n].cur]
      S1 == [S EXCEPT !.ctr.pool = @ + 1]
  IN IF k = uninitialized_block_id THEN S1
     ELSE IF d_prog.jump THEN jump_to(S1, n, k)
     ELSE prepare_for_transfer(S1, n, k)

\* virtual void body()
body(S, n) ==
  CASE n[1] = "ab" -> async_bintree_body(S, n)
    [] n[1] = "abr" -> async_bintree_rec_body(S, n)
    [] n[1] = "fp" -> future_pool_body(S, n)
    [] n[1] = "fb" -> future_body_body(S, n)
    [] n[1] = "fr" -> future_reader_body(S, n)
    [] n[1] = "epf" -> eager_parallel_for_body(S, n)
    [] n[1] = "epr" -> eager_parallel_for_rec_body(S, n)
    [] n[1] = "cnt" -> counting_body(S, n)
    [] n[1] = "et" -> edge_throughput_microbench_body(S, n)
    [] n[1] = "etf" -> edge_throughput_microbench_future_body(S, n)
    [] n[1] = "etl" -> edge_throughput_microbench_loop_body(S, n)
    [] n[1] = "etfo" -> edge_throughput_microbench_force_body(S, n)
    [] OTHER -> S

\* run leaves continuation_block_id as it is
run_keeps_continuation(S, n) ==
  LET S0 == [S EXCEPT !.nodes[n].sreq = @ - 1,
                      !.nodes[n].run = TRUE,
                      !.nodes[n].reuse = FALSE,
                      !.nodes[n].wout = S.nodes[n].out,
                      !.nodes[n].cur = S.nodes[n].cont,
                      !.nodes[n].nrun = @ + 1]
  IN IF S0.nodes[n].cur = uninitialized_block_id
       THEN [S0 EXCEPT !.err = TRUE]
       ELSE body(S0, n)

\* node::run, entered by the worker that took the node from the pool: the
\* worker's out-strategy is the node's
run(S, n) ==
  LET S0 == [S EXCEPT !.nodes[n].sreq = @ - 1,
                      !.nodes[n].run = TRUE,
                      !.nodes[n].reuse = FALSE,
                      !.nodes[n].wout = S.nodes[n].out,
                      !.nodes[n].cur = S.nodes[n].cont,
                      !.nodes[n].cont = uninitialized_block_id,
                      !.nodes[n].nrun = @ + 1]
  IN IF S0.nodes[n].cur = uninitialized_block_id
       THEN [S0 EXCEPT !.err = TRUE]
       ELSE body(S0, n)

DagState == [nodes |-> d_nodes, fut |-> d_fut, ctr |-> d_ctr, err |-> d_err]

DagBecomes(S) ==
  /\ d_nodes' = S.nodes
  /\ d_fut' = S.fut
  /\ d_ctr' = S.ctr
  /\ d_err' = S.err

Root == <<d_prog.name, 0, d_prog.n>>

\* the program's root node has been handed to the scheduler; its out-strategy
\* names the node that waits for the whole computation
InitDag ==
  /\ d_prog \in {[name |-> p, n |-> k] : p \in {"ab", "fp"}, k \in 1..MaxN}
  /\ d_nodes = (Main :> [FreshNode EXCEPT !.in = [tag |-> FETCH_ADD_TAG, val |-> 1]])
               @@ (Root :> [FreshNode EXCEPT !.out = [tag |-> UNARY_OUT, p |-> Main],
                                             !.sreq = 1])
  /\ d_fut = NoFuture
  /\ d_ctr = [leaf |-> 0, interior |-> 0, pool |-> 0, fib_result |-> 0]
  /\ d_err = FALSE
  /\ TinOff
  /\ SimpleOff
  /\ FaOff
  /\ DynOutOff
  /\ DynInOff
  /\ PfOff
  /\ InPortOff
  /\ PortMapOff
  /\ OutPortOff
  /\ SnziOff
  /\ BenchOff
  /\ NodePortsOff

Runnable(n) ==
  /\ ~d_nodes[n].dead
  /\ ~d_nodes[n].run
  /\ d_nodes[n].sreq > 0

\* simple_outset::finish up to its successful CAS: the captured list is todo
simple_finish(S) ==
  [S EXCEPT !.fut.head = FinishedHead, !.fut.todo = S.fut.head.list,
            !.fut.nfin = @ + 1]

\* the block has returned: the worker calls finished on its current
\* out-strategy, and frees the node unless reuse_calling_thread was called
finished(S, n) ==
  LET o == S.nodes[n].wout
      S1 == [S EXCEPT !.nodes[n].run = FALSE,
                      !.nodes[n].dead = ~S.nodes[n].reuse,
                      !.nodes[n].notif = IF o.tag = NOOP_OUT THEN @ ELSE @ + 1,
                      !.nodes[n].early = @ \/ (o.tag # NOOP_OUT /\ S.nodes[n].reuse)]
  IN CASE o.tag = NOOP_OUT -> S1
       [] o.tag = UNARY_OUT -> decrement_incounter_S(S1, o.p)
       [] OTHER -> simple_finish(S1)

\* a worker takes node n from the pool and executes one block of it; when the
\* block has transferred control (reuse_calling_thread), the worker's end of
\* block, which touches nothing but what the worker holds, is part of the step
RunBlock(n) ==
  /\ Runnable(n)
  /\ LET S == run(DagState, n)
     IN DagBecomes(IF S.nodes[n].reuse THEN finished(S, n) ELSE S)
  /\ UNCHANGED d_prog
  /\ UNCHANGED dagOthers

\* the end of a block that did not transfer control (the node's final block):
\* the worker notifies the node's out-strategy and frees the node
Finished(n) ==
  /\ d_nodes[n].run
  /\ DagBecomes(finished(DagState, n))
  /\ UNCHANGED d_prog
  /\ UNCHANGED dagOthers

\* simple_outset::finish: one turn of the loop over the captured list
FutureWalk ==
  /\ d_fut.todo # <<>>
  /\ LET t == Head(d_fut.todo)
         S1 == [DagState EXCEPT !.fut.todo = Tail(@), !.nodes[t].kby = "finish"]
     IN DagBecomes(decrement_incounter_S(S1, t))
  /\ UNCHANGED d_prog
  /\ UNCHANGED dagOthers

NextDag ==
  \/ \E n \in DOMAIN d_nodes : RunBlock(n)
  \/ \E n \in DOMAIN d_nodes : Finished(n)
  \/ FutureWalk

SpecDag == InitDag /\ [][NextDag]_vars

(***************************************************************************)
(* node::run on its own: a node whose body counts its executions, run as   *)
(* many times as the caller likes, whether or not its last block           *)
(* transferred control.                                                    *)
(***************************************************************************)
MaxRuns == 4
TheNode == <<"cnt", 0, 0>>

\* a freshly constructed node, and what its body does at each block
InitRun ==
  /\ d_prog \in {[name |-> "cnt", n |-> 0, tr |-> f, jump |-> j] :
                   f \in [Blocks -> Blocks \cup {uninitialized_block_id}],
                   j \in BOOLEAN}
  /\ d_nodes = (Main :> FreshNode) @@ (TheNode :> FreshNode)
  /\ d_fut = NoFuture
  /\ d_ctr = [leaf |-> 0, interior |-> 0, pool |-> 0, fib_result |-> 0]
  /\ d_err = FALSE
  /\ TinOff
  /\ SimpleOff
  /\ FaOff
  /\ DynOutOff
  /\ DynInOff
  /\ PfOff
  /\ InPortOff
  /\ PortMapOff
  /\ OutPortOff
  /\ SnziOff
  /\ BenchOff
  /\ NodePortsOff

\* n->run(), on a node that has not failed its assertion
N_Run(n) ==
  /\ n = TheNode
  /\ ~d_err
  /\ d_nodes[n].nrun < MaxRuns
  /\ DagBecomes(run(DagState, n))
  /\ UNCHANGED d_prog
  /\ UNCHANGED dagOthers

NextRun == \E n \in DOMAIN d_nodes : N_Run(n)

SpecRun == InitRun /\ [][NextRun]_vars

(***************************************************************************)
(* The edge-throughput microbenchmark: a future that detaches on a timer   *)
(* and is resumed by the loop node that finds it in buffer, and readers    *)
(* that force the future.  simple_outset::finish is never reached in this  *)
(* program (EdgeFutureNeverFinished), so its walk is not among the         *)
(* actions.                                                                *)
(***************************************************************************)
InitEdge ==
  /\ d_prog = [name |-> "et", n |-> 0]
  /\ d_nodes = (Main :> [FreshNode EXCEPT !.in = [tag |-> FETCH_ADD_TAG, val |-> 1]])
               @@ (Root :> [FreshNode EXCEPT !.out = [tag |-> UNARY_OUT, p |-> Main],
                                             !.sreq = 1])
  /\ d_fut = NoFuture
  /\ \E b \in {Null, TaggedNull, WildNode} :
       d_ctr = [leaf |-> 0, interior |-> 0, pool |-> 0, fib_result |-> 0,
                buffer |-> b, timer |-> "off", forces |-> 0, nl |-> 0, nf |-> 0]
  /\ d_err = FALSE
  /\ TinOff
  /\ SimpleOff
  /\ FaOff
  /\ DynOutOff
  /\ DynInOff
  /\ PfOff
  /\ InPortOff
  /\ PortMapOff
  /\ OutPortOff
  /\ SnziOff
  /\ BenchOff
  /\ NodePortsOff

\* the block that n runs next creates a node: one is left to create
EdgeFresh(n) ==
  CASE n[1] = "etl" /\ d_nodes[n].cont = 0 -> d_ctr.nf < MaxEdgeForces
    [] n[1] = "etl" /\ d_nodes[n].cont = 1 -> d_ctr.nl < MaxEdgeLoops
    [] OTHER -> TRUE

E_RunBlock(n) ==
  /\ ~d_err
  /\ EdgeFresh(n)
  /\ RunBlock(n)

E_Finished(n) ==
  /\ ~d_err
  /\ Finished(n)

\* the timer thread: sleep_for(nb_milliseconds); buffer->store(this)
E_Timer ==
  /\ ~d_err
  /\ d_prog.name = "et"
  /\ d_ctr.timer = "set"
  /\ d_ctr' = [d_ctr EXCEPT !.timer = "fired", !.buffer = TheProducer]
  /\ UNCHANGED <<d_prog, d_nodes, d_fut, d_err>>
  /\ UNCHANGED dagOthers

NextEdge ==
  \/ \E n \in DOMAIN d_nodes : E_RunBlock(n)
  \/ \E n \in DOMAIN d_nodes : E_Finished(n)
  \/ E_Timer

SpecEdge == InitEdge /\ [][NextEdge]_vars

(***************************************************************************)
(* The programs of the combinators together: async_bintree (finish, async, *)
(* jump_to), future_pool (future, force, call) and the edge-throughput     *)
(* microbenchmark (detach, call on a detached node).                       *)
(***************************************************************************)
InitComb == InitDag \/ InitEdge

NextComb ==
  \/ \E n \in DOMAIN d_nodes : E_RunBlock(n)
  \/ \E n \in DOMAIN d_nodes : E_Finished(n)
  \/ E_Timer
  \/ FutureWalk

SpecComb == InitComb /\ [][NextComb]_vars

(***************************************************************************)
(* The dyntree out-set: the actions.                                       *)
(***************************************************************************)
InitDynOut ==
  /\ o_tree \in TreesAfter(NbPre)
  /\ o_delay \in 1..MaxCommDelay
  /\ o_ins = [w \in Inserters |-> IdleInserter]
  /\ o_wk = [j \in Walkers |-> NoWalker]
  /\ o_dec = [s \in PreSuccessors \cup Inserters |-> 0]
  /\ o_fin = "none"
  /\ DynFreeOff
  /\ TinOff
  /\ SimpleOff
  /\ FaOff
  /\ DagOff
  /\ DynInOff
  /\ PfOff
  /\ InPortOff
  /\ PortMapOff
  /\ OutPortOff
  /\ SnziOff
  /\ BenchOff
  /\ NodePortsOff

\* ---- dyntree_outset::insert(val), val the leaf of successor w

\* insert returns status; its locals are dead
DI_Return(x, status) ==
  [x EXCEPT !.pc = "done", !.res = status, !.cur = 0, !.i = 0, !.n = EmptySlot]

\* what insert does with the slot value n it holds for slot i of cur, after
\* the tests of the finished tags (from) and of the empty tag are behind it
DI_Dispatch(x, n, from) ==
  CASE from = "pick" /\ InsertFails(n.tag) -> DI_Return(x, insert_fail)
    [] from = "pick" /\ n.tag = empty -> [x EXCEPT !.n = n, !.pc = "cas_empty"]
    [] from \in {"pick", "reload_empty"} /\ n.tag = leaf -> [x EXCEPT !.n = n, !.pc = "cas_leaf"]
    [] n.tag = interior -> [x EXCEPT !.n = n, !.pc = "pick", !.cur = n.p]
    [] OTHER -> [x EXCEPT !.n = n, !.pc = "pick"]

\* i = random_int(0, branching_factor); n = current->children[i].load().
\* The first load of a call is where the call starts: current = root, and the
\* history notes whether finish had returned
DI_Load(w) ==
  /\ o_ins[w].pc \in {"idle", "pick"}
  /\ LET x == IF o_ins[w].pc = "idle"
                THEN [o_ins[w] EXCEPT !.cur = 0, !.late = (o_fin = "returned")]
                ELSE o_ins[w]
     IN \E i \in Slots :
          o_ins' = [o_ins EXCEPT ![w] =
                      DI_Dispatch([x EXCEPT !.i = i], o_tree[x.cur][i], "pick")]
  /\ UNCHANGED <<o_tree, o_delay, o_wk, o_dec, o_fin>>
  /\ UNCHANGED dynOutOthers

\* tag == empty: compare_exchange_strong(orig, val)
DI_CasEmpty(w) ==
  /\ o_ins[w].pc = "cas_empty"
  /\ LET x == o_ins[w] IN
     IF o_tree[x.cur][x.i] = x.n
       THEN /\ o_tree' = [o_tree EXCEPT ![x.cur][x.i] = LeafSlot(w)]
            /\ o_ins' = [o_ins EXCEPT ![w] = DI_Return(x, insert_success)]
       ELSE /\ o_ins' = [o_ins EXCEPT ![w].pc = "reload_empty"]
            /\ UNCHANGED o_tree
  /\ UNCHANGED <<o_delay, o_wk, o_dec, o_fin>>
  /\ UNCHANGED dynOutOthers

\* a plausible slip: the leaf branch stores val as the empty branch does, and
\* the leaf that was in the slot is dropped
DI_CasLeafAsEmpty(w) ==
  /\ o_ins[w].pc = "cas_leaf"
  /\ LET x == o_ins[w] IN
     IF o_tree[x.cur][x.i] = x.n
       THEN /\ o_tree' = [o_tree EXCEPT ![x.cur][x.i] = LeafSlot(w)]
            /\ o_ins' = [o_ins EXCEPT ![w] = DI_Return(x, insert_success)]
       ELSE /\ o_ins' = [o_ins EXCEPT ![w].pc = "reload_leaf"]
            /\ UNCHANGED o_tree
  /\ UNCHANGED <<o_delay, o_wk, o_dec, o_fin>>
  /\ UNCHANGED dynOutOthers

\* tag == leaf: tmp = new outset_node(val, n); compare_exchange_strong(orig, tmp)
DI_CasLeaf(w) ==
  /\ o_ins[w].pc = "cas_leaf"
  /\ LET x == o_ins[w] IN
     IF o_tree[x.cur][x.i] = x.n
       THEN /\ o_tree' = (w :> outset_node_of(LeafSlot(w), x.n))
                           @@ [o_tree EXCEPT ![x.cur][x.i] = InteriorSlot(w)]
            /\ o_ins' = [o_ins EXCEPT ![w] = DI_Return(x, insert_success)]
       ELSE /\ o_ins' = [o_ins EXCEPT ![w].pc = "reload_leaf"]
            /\ UNCHANGED o_tree
  /\ UNCHANGED <<o_delay, o_wk, o_dec, o_fin>>
  /\ UNCHANGED dynOutOthers

\* after a failed CAS: n = current->children[i].load(), and the tests that follow
DI_Reload(w) ==
  /\ o_ins[w].pc \in {"reload_empty", "reload_leaf"}
  /\ o_ins' = [o_ins EXCEPT ![w] =
                 DI_Dispatch(o_ins[w], o_tree[o_ins[w].cur][o_ins[w].i], o_ins[w].pc)]
  /\ UNCHANGED <<o_tree, o_delay, o_wk, o_dec, o_fin>>
  /\ UNCHANGED dynOutOthers

\* ---- the notify walk

\* a plausible slip: the loop of the partial walk stops one node early
PartialContinuesShort(k, todo) == k < o_delay - 1 /\ todo # <<>>

\* notify_outset_tree_nodes_partial: (k < communication_delay) && (! todo.empty())
PartialContinues(k, todo) == k < o_delay /\ todo # <<>>

\* notify_outset_tree_nodes_partial: the loop test, and current = todo.back(),
\* todo.pop_back() when it passes
PartialStep(x) ==
  IF PartialContinues(x.k, x.todo)
    THEN [x EXCEPT !.pc = "load", !.cur = x.todo[Len(x.todo)],
                   !.todo = SubSeq(x.todo, 1, Len(x.todo) - 1), !.i = 0]
    ELSE [x EXCEPT !.pc = "return", !.cur = 0, !.i = 0]

\* dyntree_outset::finish calls notify_outset_nodes: todo.push_back(out->root)
\* and the partial walk begins
DW_Finish ==
  /\ o_fin = "none"
  /\ o_fin' = "running"
  /\ o_wk' = [o_wk EXCEPT ![0] = PartialStep([NoWalker EXCEPT !.todo = <<0>>])]
  /\ UNCHANGED <<o_tree, o_delay, o_ins, o_dec>>
  /\ UNCHANGED dynOutOthers

\* One slot of the for loop. The loop { n = load(); CAS(n, make_finished(n)) }
\* leaves only by a CAS that succeeds, that is when the slot still holds the n
\* that was loaded: the loop is the atomic replacement of the slot's value n by
\* make_finished(n). Then the decrement of a leaf's successor, or the push of
\* an interior node, and the next slot or the next turn of the outer loop
DW_Mark(j) ==
  /\ o_wk[j].pc = "load"
  /\ LET x == o_wk[j]
         n == o_tree[x.cur][x.i]
         last == x.i = branching_factor - 1
         y == [x EXCEPT !.todo = IF n.tag = interior THEN Append(@, n.p) ELSE @]
     IN /\ o_tree' = [o_tree EXCEPT ![x.cur][x.i] = make_finished(n)]
        /\ o_dec' = IF n.tag = leaf THEN [o_dec EXCEPT ![n.p] = @ + 1] ELSE o_dec
        /\ o_wk' = [o_wk EXCEPT ![j] =
                      IF last THEN PartialStep([y EXCEPT !.k = x.k + 1])
                              ELSE [y EXCEPT !.i = x.i + 1]]
  /\ UNCHANGED <<o_delay, o_ins, o_fin>>
  /\ UNCHANGED dynOutOthers

\* delete out: ~dyntree_outset calls deallocate_outset_tree(root), which
\* pushes the root and runs deallocate_outset_tree_partial in the caller
delete_out ==
  /\ o_dels' = o_dels + 1
  /\ o_fw' = IF o_dels = 0
              THEN [o_fw EXCEPT ![0] = PartialStep([NoWalker EXCEPT !.todo = <<0>>])]
              ELSE o_fw

\* the values that a read of out->should_deallocate_automatically may give:
\* the member, or anything once the out-set has been deleted
ReadSda == IF o_dels = 0 THEN {o_sda} ELSE BOOLEAN

\* notify_outset_nodes after the partial walk: the rest of todo goes to a
\* task (notify_outset_tree_nodes_par and its notify_outset_tree_nodes_par_rec),
\* and finish returns
DW_FinishReturns ==
  /\ o_wk[0].pc = "return"
  /\ o_fin' = "returned"
  /\ o_wk' = [o_wk EXCEPT ![0] = [NoWalker EXCEPT !.pc = "done"],
                          ![1] = IF o_wk[0].todo # <<>>
                                   THEN [NoWalker EXCEPT !.pc = "ready", !.todo = o_wk[0].todo]
                                   ELSE @]
  /\ \E v \in (IF o_wk[0].todo = <<>> THEN ReadSda ELSE {FALSE}) :
        IF v THEN delete_out ELSE UNCHANGED <<o_dels, o_fw>>
  /\ UNCHANGED <<o_tree, o_delay, o_ins, o_dec, o_sda, o_parx, o_freed, o_err>>
  /\ UNCHANGED dynFreeOthers

\* notify_outset_tree_nodes_par_rec::body: process_block runs the partial
\* walk, repeat_block ends the task when todo is empty
DW_Block(j) ==
  /\ j # 0
  /\ o_wk[j].pc \in {"ready", "return"}
  /\ o_wk' = [o_wk EXCEPT ![j] = IF o_wk[j].todo = <<>>
                                    THEN [NoWalker EXCEPT !.pc = "done"]
                                    ELSE PartialStep([o_wk[j] EXCEPT !.k = 0])]
  /\ UNCHANGED <<o_tree, o_delay, o_ins, o_dec, o_fin>>
  /\ UNCHANGED dynOutOthers

\* a plausible slip: split hands todo.front() to the new task and forgets
\* todo.pop_front()
DW_SplitKeepsFront(j, j2) ==
  /\ j # 0 /\ j2 # 0
  /\ o_wk[j].pc \in {"ready", "return"}
  /\ Len(o_wk[j].todo) >= 2
  /\ o_wk[j2].pc = "unborn"
  /\ \A j3 \in Walkers : j3 # 0 /\ o_wk[j3].pc = "unborn" => j2 <= j3
  /\ o_wk' = [o_wk EXCEPT ![j2] = [NoWalker EXCEPT !.pc = "ready",
                                                   !.todo = <<Head(o_wk[j].todo)>>]]
  /\ UNCHANGED <<o_tree, o_delay, o_ins, o_dec, o_fin>>
  /\ UNCHANGED dynOutOthers

\* notify_outset_tree_nodes_par_rec::split, called by the scheduler on a task
\* that is not running: the front of todo goes to a new task
DW_Split(j, j2) ==
  /\ j # 0 /\ j2 # 0
  /\ o_wk[j].pc \in {"ready", "return"}
  /\ Len(o_wk[j].todo) >= 2
  /\ o_wk[j2].pc = "unborn"
  /\ \A j3 \in Walkers : j3 # 0 /\ o_wk[j3].pc = "unborn" => j2 <= j3
  /\ o_wk' = [o_wk EXCEPT ![j].todo = Tail(@),
                          ![j2] = [NoWalker EXCEPT !.pc = "ready",
                                                   !.todo = <<Head(o_wk[j].todo)>>]]
  /\ UNCHANGED <<o_tree, o_delay, o_ins, o_dec, o_fin>>
  /\ UNCHANGED dynOutOthers

NextDynOut ==
  \/ \E w \in Inserters : DI_Load(w)
  \/ \E w \in Inserters : DI_CasEmpty(w)
  \/ \E w \in Inserters : DI_CasLeaf(w)
  \/ \E w \in Inserters : DI_Reload(w)
  \/ DW_Finish
  \/ \E j \in Walkers : DW_Mark(j)
  \/ DW_FinishReturns
  \/ \E j \in Walkers : DW_Block(j)
  \/ \E j, j2 \in Walkers : DW_Split(j, j2)

SpecDynOut == InitDynOut /\ [][NextDynOut]_vars


(***************************************************************************)
(* The dyntree in-counter: the actions.                                    *)
(***************************************************************************)
\* dyntree_incounter(): in = nullptr, out = a node whose children are minus()
InitDynIn ==
  /\ i_in = NullPtr
  /\ i_ch = (OutRoot :> incounter_node(minus))
  /\ i_w = [w \in InWorkers |-> IdleInWorker]
  /\ i_stop = FALSE
  /\ i_act = 0
  /\ i_undisc = FALSE
  /\ i_solo = 0
  /\ TinOff
  /\ SimpleOff
  /\ FaOff
  /\ DagOff
  /\ DynOutOff
  /\ PfOff
  /\ InPortOff
  /\ PortMapOff
  /\ OutPortOff
  /\ SnziOff
  /\ BenchOff
  /\ NodePortsOff

\* the locals of a call are dead when it returns
InLocalsDead(x) ==
  [x EXCEPT !.lf = NullPtr, !.seen = NullPtr, !.cur = NullPtr, !.i = 0,
            !.tgt = NullPtr, !.root = FALSE, !.k = 0, !.ret = "none"]

\* back in benchmark_incounter_thread after increment or decrement: the main
\* loop goes on, and the last loop does nb_pending_increments--
InReturn(x) ==
  InLocalsDead([x EXCEPT !.pc = "top", !.pend = IF x.drain THEN @ - 1 ELSE @])

\* the main thread sets should_stop
BT_Stop ==
  /\ ~i_stop
  /\ i_stop' = TRUE
  /\ UNCHANGED <<i_in, i_ch, i_w, i_act, i_undisc>>
  /\ UNCHANGED dynInOthers

\* main loop, else branch: nb_pending_increments++; incounter.increment(my_id),
\* which starts with leaf = new incounter_node
BT_Increment(w) ==
  /\ i_w[w].pc = "top" /\ ~i_stop /\ i_w[w].c < MaxLoopOps
  /\ LET x == i_w[w]
         lf == IncNode(w, x.nincs)
     IN /\ i_w' = [i_w EXCEPT ![w] = [x EXCEPT !.pc = "i_test", !.pend = @ + 1,
                                               !.c = @ + 1, !.nincs = @ + 1,
                                               !.unm = @ + 1, !.lf = lf]]
        /\ i_ch' = (lf :> incounter_node(NullChild)) @@ i_ch
  /\ UNCHANGED <<i_in, i_stop, i_act, i_undisc>>
  /\ UNCHANGED dynInOthers

\* main loop, nb_pending_increments > 0 && rng % 2 == 0: incounter.decrement(my_id)
BT_Decrement(w) ==
  /\ i_w[w].pc = "top" /\ ~i_stop /\ i_w[w].c < MaxLoopOps
  /\ i_w[w].pend > 0
  /\ i_w' = [i_w EXCEPT ![w].pc = "d_read", ![w].c = @ + 1,
                        ![w].unm = IF @ > 0 THEN @ - 1 ELSE 0]
  /\ i_undisc' = (i_undisc \/ i_w[w].unm = 0)
  /\ UNCHANGED <<i_in, i_ch, i_stop, i_act>>
  /\ UNCHANGED dynInOthers

\* after the main loop: while (nb_pending_increments > 0) incounter.decrement(my_id)
BT_Drain(w) ==
  /\ i_w[w].pc = "top" /\ i_stop
  /\ IF i_w[w].pend > 0
       THEN /\ i_w' = [i_w EXCEPT ![w].pc = "d_read", ![w].drain = TRUE,
                                  ![w].unm = IF @ > 0 THEN @ - 1 ELSE 0]
            /\ i_undisc' = (i_undisc \/ i_w[w].unm = 0)
       ELSE /\ i_w' = [i_w EXCEPT ![w].pc = "end"]
            /\ UNCHANGED i_undisc
  /\ UNCHANGED <<i_in, i_ch, i_stop, i_act>>
  /\ UNCHANGED dynInOthers

\* ---- dyntree_incounter::increment

\* if (in == nullptr)
Inc_TestIn(w) ==
  /\ i_w[w].pc = "i_test"
  /\ i_w' = [i_w EXCEPT ![w].seen = i_in,
                        ![w].pc = IF i_in = NullPtr THEN "i_store" ELSE "i_current"]
  /\ UNCHANGED <<i_in, i_ch, i_stop, i_act, i_undisc>>
  /\ UNCHANGED dynInOthers

\* in = leaf; return
Inc_StoreIn(w) ==
  /\ i_w[w].pc = "i_store"
  /\ i_in' = i_w[w].lf
  /\ i_w' = [i_w EXCEPT ![w] = InReturn(i_w[w])]
  /\ UNCHANGED <<i_ch, i_stop, i_act, i_undisc>>
  /\ UNCHANGED dynInOthers

\* assert(in != nullptr); current = in. The field is not atomic: the value
\* is the one the test read, or the one in holds now; nullptr ends the thread
\* (the assertion, or the load of a child of nullptr)
Inc_Current(w) ==
  /\ i_w[w].pc = "i_current"
  /\ \E v \in {i_w[w].seen, i_in} :
       i_w' = [i_w EXCEPT ![w] = IF v = NullPtr
                                   THEN InLocalsDead([i_w[w] EXCEPT !.pc = "crashed"])
                                   ELSE [i_w[w] EXCEPT !.cur = v, !.pc = "i_pick"]]
  /\ UNCHANGED <<i_in, i_ch, i_stop, i_act, i_undisc>>
  /\ UNCHANGED dynInOthers

\* i = random_int(0, branching_factor); next = branch.load(), and the tests
\* on next: the minus tag breaks to the outer loop, nullptr goes to the CAS,
\* a pointer is followed
Inc_PickSlot(w, i) ==
  /\ i_w[w].pc = "i_pick"
  /\ LET next == i_ch[i_w[w].cur][i] IN
     i_w' = [i_w EXCEPT ![w] =
               IF next.m THEN [i_w[w] EXCEPT !.pc = "i_test", !.cur = NullPtr, !.i = 0]
               ELSE IF next.p = NullPtr THEN [i_w[w] EXCEPT !.pc = "i_cas", !.i = i]
               ELSE [i_w[w] EXCEPT !.cur = next.p]]
  /\ UNCHANGED <<i_in, i_ch, i_stop, i_act, i_undisc>>
  /\ UNCHANGED dynInOthers

Inc_Pick(w) == \E i \in Slots : Inc_PickSlot(w, i)

\* branch.compare_exchange_strong(nullptr, leaf): return, or break to the
\* outer loop
Inc_Cas(w) ==
  /\ i_w[w].pc = "i_cas"
  /\ LET x == i_w[w] IN
     IF i_ch[x.cur][x.i] = NullChild
       THEN /\ i_ch' = [i_ch EXCEPT ![x.cur][x.i] = ChildPtr(x.lf)]
            /\ i_w' = [i_w EXCEPT ![w] = InReturn(x)]
       ELSE /\ i_w' = [i_w EXCEPT ![w] = [x EXCEPT !.pc = "i_test", !.cur = NullPtr, !.i = 0]]
            /\ UNCHANGED i_ch
  /\ UNCHANGED <<i_in, i_stop, i_act, i_undisc>>
  /\ UNCHANGED dynInOthers

\* ---- dyntree_incounter::decrement

\* current = in; assert(current != nullptr); nullptr ends the thread (the
\* assertion, or is_leaf of nullptr). Then current->is_leaf() begins
Dec_ReadIn(w) ==
  /\ i_w[w].pc = "d_read"
  /\ i_w' = [i_w EXCEPT ![w] =
               IF i_in = NullPtr
                 THEN InLocalsDead([i_w[w] EXCEPT !.pc = "crashed"])
                 ELSE [i_w[w] EXCEPT !.pc = "d_isleaf", !.cur = i_in, !.tgt = i_in,
                                     !.root = TRUE, !.k = 0]]
  /\ UNCHANGED <<i_in, i_ch, i_stop, i_act, i_undisc>>
  /\ UNCHANGED dynInOthers

\* what decrement does when tgt is not a leaf, or when it was not detached:
\* current (the root included) goes to the inner loop; a child that was not
\* detached breaks to the outer loop; a child that is not a leaf is followed
Dec_NotLeaf(x) ==
  [x EXCEPT !.pc = "d_pick", !.cur = x.tgt, !.tgt = NullPtr, !.root = FALSE, !.k = 0]

Dec_NotDetached(x) ==
  IF x.root THEN Dec_NotLeaf(x)
  ELSE [x EXCEPT !.pc = "d_read", !.cur = NullPtr, !.tgt = NullPtr, !.i = 0, !.k = 0]

\* incounter_node::is_leaf, one turn of its loop: children[k].load()
Dec_IsLeaf(w) ==
  /\ i_w[w].pc = "d_isleaf"
  /\ LET x == i_w[w] IN
     i_w' = [i_w EXCEPT ![w] =
               IF i_ch[x.tgt][x.k].p # NullPtr THEN Dec_NotLeaf(x)
               ELSE IF x.k = branching_factor - 1 THEN [x EXCEPT !.pc = "d_detach", !.k = 0]
               ELSE [x EXCEPT !.k = x.k + 1]]
  /\ UNCHANGED <<i_in, i_ch, i_stop, i_act, i_undisc>>
  /\ UNCHANGED dynInOthers

\* a plausible slip: try_to_detatch stores minus() without comparing
Dec_DetachBlind(w) ==
  /\ i_w[w].pc = "d_detach"
  /\ LET x == i_w[w] IN
     /\ i_ch' = [i_ch EXCEPT ![x.tgt][x.k] = minus]
     /\ i_w' = [i_w EXCEPT ![w] =
           IF x.k < branching_factor - 1 THEN [x EXCEPT !.k = x.k + 1]
           ELSE [x EXCEPT !.k = 0,
                          !.pc = IF x.root THEN "d_clear_in" ELSE "d_clear_branch"]]
  /\ UNCHANGED <<i_in, i_stop, i_act, i_undisc>>
  /\ UNCHANGED dynInOthers

\* try_to_detatch, one turn of its loop:
\* children[k].compare_exchange_strong(nullptr, minus())
Dec_Detach(w) ==
  /\ i_w[w].pc = "d_detach"
  /\ LET x == i_w[w] IN
     IF i_ch[x.tgt][x.k] = NullChild
       THEN /\ i_ch' = [i_ch EXCEPT ![x.tgt][x.k] = minus]
            /\ i_w' = [i_w EXCEPT ![w] =
                  IF x.k < branching_factor - 1 THEN [x EXCEPT !.k = x.k + 1]
                  ELSE [x EXCEPT !.k = 0,
                                 !.pc = IF x.root THEN "d_clear_in" ELSE "d_clear_branch"]]
       ELSE /\ i_w' = [i_w EXCEPT ![w] =
                  IF x.k = 0 THEN Dec_NotDetached(x)
                  ELSE [x EXCEPT !.pc = "d_rollback", !.k = x.k - 1]]
            /\ UNCHANGED i_ch
  /\ UNCHANGED <<i_in, i_stop, i_act, i_undisc>>
  /\ UNCHANGED dynInOthers

\* try_to_detatch after a CAS that failed: n->children[j].store(nullptr)
Dec_Rollback(w) ==
  /\ i_w[w].pc = "d_rollback"
  /\ LET x == i_w[w] IN
     /\ i_ch' = [i_ch EXCEPT ![x.tgt][x.k] = NullChild]
     /\ i_w' = [i_w EXCEPT ![w] = IF x.k = 0 THEN Dec_NotDetached(x)
                                  ELSE [x EXCEPT !.k = x.k - 1]]
  /\ UNCHANGED <<i_in, i_stop, i_act, i_undisc>>
  /\ UNCHANGED dynInOthers

\* the root was detached: in = nullptr
Dec_ClearIn(w) ==
  /\ i_w[w].pc = "d_clear_in"
  /\ i_in' = NullPtr
  /\ i_w' = [i_w EXCEPT ![w].pc = "d_add_to_out", ![w].ret = activated]
  /\ UNCHANGED <<i_ch, i_stop, i_act, i_undisc>>
  /\ UNCHANGED dynInOthers

\* a child was detached: branch.store(nullptr)
Dec_ClearBranch(w) ==
  /\ i_w[w].pc = "d_clear_branch"
  /\ i_ch' = [i_ch EXCEPT ![i_w[w].cur][i_w[w].i] = NullChild]
  /\ i_w' = [i_w EXCEPT ![w].pc = "d_add_to_out", ![w].ret = not_activated]
  /\ UNCHANGED <<i_in, i_stop, i_act, i_undisc>>
  /\ UNCHANGED dynInOthers

\* the inner loop: i = random_int(0, branching_factor); next = branch.load();
\* nullptr or the minus tag breaks to the outer loop, else next->is_leaf()
Dec_Pick(w) ==
  /\ i_w[w].pc = "d_pick"
  /\ \E i \in Slots :
       LET next == i_ch[i_w[w].cur][i] IN
       i_w' = [i_w EXCEPT ![w] =
                 IF next.p = NullPtr \/ next.m
                   THEN [i_w[w] EXCEPT !.pc = "d_read", !.cur = NullPtr, !.i = 0]
                   ELSE [i_w[w] EXCEPT !.pc = "d_isleaf", !.i = i, !.tgt = next.p,
                                       !.root = FALSE, !.k = 0]]
  /\ UNCHANGED <<i_in, i_ch, i_stop, i_act, i_undisc>>
  /\ UNCHANGED dynInOthers

\* a plausible slip: add_to_out links n without the minus tag
Dec_AddToOutUntagged(w) ==
  /\ i_w[w].pc = "d_add_to_out"
  /\ \E s \in OutFree(i_ch, OutRoot) :
       i_ch' = [i_ch EXCEPT ![s[1]][s[2]] = ChildPtr(i_w[w].tgt)]
  /\ i_act' = IF i_w[w].ret = activated THEN i_act + 1 ELSE i_act
  /\ i_w' = [i_w EXCEPT ![w] = InReturn(i_w[w])]
  /\ UNCHANGED <<i_in, i_stop, i_undisc>>
  /\ UNCHANGED dynInOthers

\* add_to_out(n) and the return of decrement. The descent from out follows
\* pointers that never change, and the loop leaves only by a CAS that succeeds
\* on a slot whose pointer is null: the call attaches n, with the minus tag,
\* at one of the slots of the out tree whose pointer is null
Dec_AddToOut(w) ==
  /\ i_w[w].pc = "d_add_to_out"
  /\ \E s \in OutFree(i_ch, OutRoot) :
       i_ch' = [i_ch EXCEPT ![s[1]][s[2]] = MinusPtr(i_w[w].tgt)]
  /\ i_act' = IF i_w[w].ret = activated THEN i_act + 1 ELSE i_act
  /\ i_w' = [i_w EXCEPT ![w] = InReturn(i_w[w])]
  /\ UNCHANGED <<i_in, i_stop, i_undisc>>
  /\ UNCHANGED dynInOthers

NextDynIn ==
  \/ BT_Stop
  \/ \E w \in InWorkers : BT_Increment(w)
  \/ \E w \in InWorkers : BT_Decrement(w)
  \/ \E w \in InWorkers : BT_Drain(w)
  \/ \E w \in InWorkers : Inc_TestIn(w)
  \/ \E w \in InWorkers : Inc_StoreIn(w)
  \/ \E w \in InWorkers : Inc_Current(w)
  \/ \E w \in InWorkers : Inc_Pick(w)
  \/ \E w \in InWorkers : Inc_Cas(w)
  \/ \E w \in InWorkers : Dec_ReadIn(w)
  \/ \E w \in InWorkers : Dec_IsLeaf(w)
  \/ \E w \in InWorkers : Dec_Detach(w)
  \/ \E w \in InWorkers : Dec_Rollback(w)
  \/ \E w \in InWorkers : Dec_ClearIn(w)
  \/ \E w \in InWorkers : Dec_ClearBranch(w)
  \/ \E w \in InWorkers : Dec_Pick(w)
  \/ \E w \in InWorkers : Dec_AddToOut(w)

SpecDynIn == InitDynIn /\ [][NextDynIn]_vars


(***************************************************************************)
(* The dyntree in-counter when a thread runs alone: from some point on the *)
(* scheduler runs one thread only (i_solo), the others stay where they     *)
(* are.  The thread that runs alone keeps taking steps, and random_int     *)
(* does not hold back a slot for ever.                                     *)
(***************************************************************************)
\* thread w may take a step
Scheduled(w) == i_solo \in {0, w}

\* from now on thread w, which is in increment, runs alone
Solo_Begin(w) ==
  /\ i_solo = 0
  /\ i_w[w].pc \in {"i_test", "i_store", "i_current", "i_pick", "i_cas"}
  /\ i_solo' = w
  /\ UNCHANGED <<tinVars, simpleVars, faVars, dagVars, dynOutVars, dynInVars, dynFreeVars, pfVars, inPortVars, portMapVars, outPortVars, snziVars, benchVars, nodePortsVars>>

Solo_BT_Stop == i_solo = 0 /\ BT_Stop
Solo_BT_Increment == \E w \in InWorkers : Scheduled(w) /\ BT_Increment(w)
Solo_BT_Decrement == \E w \in InWorkers : Scheduled(w) /\ BT_Decrement(w)
Solo_BT_Drain == \E w \in InWorkers : Scheduled(w) /\ BT_Drain(w)
Solo_Inc_TestIn == \E w \in InWorkers : Scheduled(w) /\ Inc_TestIn(w)
Solo_Inc_StoreIn == \E w \in InWorkers : Scheduled(w) /\ Inc_StoreIn(w)
Solo_Inc_Current == \E w \in InWorkers : Scheduled(w) /\ Inc_Current(w)
Solo_Inc_Pick == \E w \in InWorkers : Scheduled(w) /\ Inc_Pick(w)
Solo_Inc_Cas == \E w \in InWorkers : Scheduled(w) /\ Inc_Cas(w)
Solo_Dec_ReadIn == \E w \in InWorkers : Scheduled(w) /\ Dec_ReadIn(w)
Solo_Dec_IsLeaf == \E w \in InWorkers : Scheduled(w) /\ Dec_IsLeaf(w)
Solo_Dec_Detach == \E w \in InWorkers : Scheduled(w) /\ Dec_Detach(w)
Solo_Dec_Rollback == \E w \in InWorkers : Scheduled(w) /\ Dec_Rollback(w)
Solo_Dec_ClearIn == \E w \in InWorkers : Scheduled(w) /\ Dec_ClearIn(w)
Solo_Dec_ClearBranch == \E w \in InWorkers : Scheduled(w) /\ Dec_ClearBranch(w)
Solo_Dec_Pick == \E w \in InWorkers : Scheduled(w) /\ Dec_Pick(w)
Solo_Dec_AddToOut == \E w \in InWorkers : Scheduled(w) /\ Dec_AddToOut(w)

\* a step of thread w
ThreadStep(w) ==
  \/ BT_Increment(w)
  \/ BT_Decrement(w)
  \/ BT_Drain(w)
  \/ Inc_TestIn(w)
  \/ Inc_StoreIn(w)
  \/ Inc_Current(w)
  \/ Inc_Pick(w)
  \/ Inc_Cas(w)
  \/ Dec_ReadIn(w)
  \/ Dec_IsLeaf(w)
  \/ Dec_Detach(w)
  \/ Dec_Rollback(w)
  \/ Dec_ClearIn(w)
  \/ Dec_ClearBranch(w)
  \/ Dec_Pick(w)
  \/ Dec_AddToOut(w)

NextDynInSolo ==
  \/ \E w \in InWorkers : Solo_Begin(w)
  \/ Solo_BT_Stop
  \/ Solo_BT_Increment
  \/ Solo_BT_Decrement
  \/ Solo_BT_Drain
  \/ Solo_Inc_TestIn
  \/ Solo_Inc_StoreIn
  \/ Solo_Inc_Current
  \/ Solo_Inc_Pick
  \/ Solo_Inc_Cas
  \/ Solo_Dec_ReadIn
  \/ Solo_Dec_IsLeaf
  \/ Solo_Dec_Detach
  \/ Solo_Dec_Rollback
  \/ Solo_Dec_ClearIn
  \/ Solo_Dec_ClearBranch
  \/ Solo_Dec_Pick
  \/ Solo_Dec_AddToOut

SoloFairness ==
  \A w \in InWorkers :
    /\ WF_vars(i_solo = w /\ ThreadStep(w))
    /\ \A i \in Slots : SF_vars(i_solo = w /\ Inc_PickSlot(w, i))

SpecDynInSolo == InitDynIn /\ [][NextDynInSolo]_vars /\ SoloFairness

(***************************************************************************)
(* Deallocation of out-sets.  A dyntree out-set that is not a future is    *)
(* deleted by its own finish (notify_outset_nodes, or the exit block of    *)
(* notify_outset_tree_nodes_par); a future is deleted by deallocate_future, *)
(* called by the node that holds it once its consumers have been woken.    *)
(* The destructor walks the tree (deallocate_outset_tree), in the caller   *)
(* first and then in tasks that are split.  The specification starts from  *)
(* either kind of out-set, simple or dyntree.                              *)
(***************************************************************************)
\* An out-set made by prepare_node(n) (o_sda = TRUE) has no concurrent
\* inserters: all its successors are in the tree when finish is called; one
\* made by allocate_future has inserters
InitDynOutFree ==
  /\ o_sda \in BOOLEAN
  /\ o_tree \in UNION {TreesAfter(k) :
                         k \in 1..(IF o_sda THEN NbPre + NbInserters ELSE NbPre)}
  /\ o_delay \in 1..MaxCommDelay
  /\ o_ins = [w \in Inserters |-> IF o_sda THEN [IdleInserter EXCEPT !.pc = "off"]
                                            ELSE IdleInserter]
  /\ o_wk = [j \in Walkers |-> NoWalker]
  /\ o_dec = [s \in PreSuccessors \cup Inserters |-> 0]
  /\ o_fin = "none"
  /\ o_dels = 0
  /\ o_parx = FALSE
  /\ o_fw = [j \in Walkers |-> NoWalker]
  /\ o_freed = {}
  /\ o_err = "none"
  /\ TinOff
  /\ SimpleOff
  /\ FaOff
  /\ DagOff
  /\ DynInOff
  /\ PfOff
  /\ InPortOff
  /\ PortMapOff
  /\ OutPortOff
  /\ SnziOff
  /\ BenchOff
  /\ NodePortsOff

\* the tasks of the notify walk have all finished
NotifyTasksDone == \A j \in Walkers \ {0} : o_wk[j].pc \in {"unborn", "done"}

\* a plausible slip: the exit block does not wait for the tasks of the walk
DF_ParExitEarly ==
  /\ o_wk[1].pc # "unborn"
  /\ ~o_parx
  /\ o_parx' = TRUE
  /\ \E v \in ReadSda : IF v THEN delete_out ELSE UNCHANGED <<o_dels, o_fw>>
  /\ UNCHANGED <<o_sda, o_freed, o_err, dynOutVars>>
  /\ UNCHANGED dynFreeOthers

\* notify_outset_tree_nodes_par::body, exit_block: the block that
\* finish(new notify_outset_tree_nodes_par_rec(this, todo), exit_block) runs
\* when the tasks of the walk have finished
DF_ParExit ==
  /\ o_wk[1].pc # "unborn"
  /\ NotifyTasksDone
  /\ ~o_parx
  /\ o_parx' = TRUE
  /\ \E v \in ReadSda : IF v THEN delete_out ELSE UNCHANGED <<o_dels, o_fw>>
  /\ UNCHANGED <<o_sda, o_freed, o_err, dynOutVars>>
  /\ UNCHANGED dynFreeOthers

\* successor s is in a leaf of the tree
HasLeaf(s) ==
  \E nd \in DOMAIN o_tree : \E i \in Slots :
    o_tree[nd][i].tag \in {leaf, finished_leaf} /\ o_tree[nd][i].p = s

\* every node that holds the future has been woken: the successors in the
\* tree were decremented, the callers of insert have their answer
ConsumersWoken ==
  /\ \A s \in PreSuccessors : HasLeaf(s) => o_dec[s] >= 1
  /\ \A w \in Inserters :
        /\ o_ins[w].pc = "done"
        /\ o_ins[w].res = insert_success => o_dec[w] >= 1

\* node::deallocate_future(future): assert(! should_deallocate_automatically);
\* future->destroy(), which is delete this
DF_DeallocateFuture ==
  /\ ~o_sda
  /\ o_dels = 0
  /\ ConsumersWoken
  /\ delete_out
  /\ UNCHANGED <<o_sda, o_parx, o_freed, o_err, dynOutVars>>
  /\ UNCHANGED dynFreeOthers

\* deallocate_outset_tree_partial, one turn of the for loop:
\* c = n->children[i].load() and the tests of its tag; after the last slot,
\* delete n, k++, and the test of the outer loop
DF_Load(j) ==
  /\ o_fw[j].pc = "load"
  /\ LET x == o_fw[j]
         c == o_tree[x.cur][x.i]
         last == x.i = branching_factor - 1
         y == [x EXCEPT !.todo = IF c.tag = finished_interior THEN Append(@, c.p) ELSE @]
     IN /\ o_fw' = [o_fw EXCEPT ![j] =
                      IF last THEN PartialStep([y EXCEPT !.k = x.k + 1])
                              ELSE [y EXCEPT !.i = x.i + 1]]
        /\ o_freed' = IF last THEN o_freed \cup {x.cur} ELSE o_freed
        /\ o_err' = IF ~IsFinishedTag(c.tag) THEN "assert"
                    ELSE IF last /\ x.cur \in o_freed THEN "double_free"
                    ELSE o_err
  /\ UNCHANGED <<o_sda, o_dels, o_parx, dynOutVars>>
  /\ UNCHANGED dynFreeOthers

\* deallocate_outset_tree after the partial walk: the rest of todo goes to a
\* task deallocate_outset_tree_par
DF_Return ==
  /\ o_fw[0].pc = "return"
  /\ o_fw' = [o_fw EXCEPT ![0] = [NoWalker EXCEPT !.pc = "done"],
                          ![1] = IF o_fw[0].todo # <<>>
                                   THEN [NoWalker EXCEPT !.pc = "ready", !.todo = o_fw[0].todo]
                                   ELSE @]
  /\ UNCHANGED <<o_sda, o_dels, o_parx, o_freed, o_err, dynOutVars>>
  /\ UNCHANGED dynFreeOthers

\* deallocate_outset_tree_par::body: process_block runs the partial walk,
\* repeat_block ends the task when todo is empty
DF_Block(j) ==
  /\ j # 0
  /\ o_fw[j].pc \in {"ready", "return"}
  /\ o_fw' = [o_fw EXCEPT ![j] = IF o_fw[j].todo = <<>>
                                    THEN [NoWalker EXCEPT !.pc = "done"]
                                    ELSE PartialStep([o_fw[j] EXCEPT !.k = 0])]
  /\ UNCHANGED <<o_sda, o_dels, o_parx, o_freed, o_err, dynOutVars>>
  /\ UNCHANGED dynFreeOthers

\* deallocate_outset_tree_par::split: the front of todo goes to a new task
DF_Split(j, j2) ==
  /\ j # 0 /\ j2 # 0
  /\ o_fw[j].pc \in {"ready", "return"}
  /\ Len(o_fw[j].todo) >= 2
  /\ o_fw[j2].pc = "unborn"
  /\ \A j3 \in Walkers : j3 # 0 /\ o_fw[j3].pc = "unborn" => j2 <= j3
  /\ o_fw' = [o_fw EXCEPT ![j].todo = Tail(@),
                          ![j2] = [NoWalker EXCEPT !.pc = "ready",
                                                   !.todo = <<Head(o_fw[j].todo)>>]]
  /\ UNCHANGED <<o_sda, o_dels, o_parx, o_freed, o_err, dynOutVars>>
  /\ UNCHANGED dynFreeOthers

\* node::deallocate_future on a simple out-set, by the node that holds the
\* future, once the callers of add_edge (force) have been woken
Sim_DeallocateFuture ==
  /\ ~sda /\ alive
  /\ \A w \in EdgeWorkers :
        /\ ae_pc[w] = "done"
        /\ ae_res[w] = insert_success => ae_decFin[w] >= 1
  /\ alive' = FALSE
  /\ UNCHANGED <<tinVars, head, sda, ae_pc, ae_tgt, ae_orig, ae_res, ae_late,
                 ae_incs, ae_decSelf, ae_decFin, fin_pc, fin_orig, fin_todo>>
  /\ UNCHANGED simpleOthers

InitOutsetFree == InitSimple \/ InitDynOutFree

NextOutsetFree ==
  \/ \E w \in EdgeWorkers : AE_Increment(w)
  \/ \E w \in EdgeWorkers : AE_Insert(w)
  \/ \E w \in EdgeWorkers : AE_Load(w)
  \/ \E w \in EdgeWorkers : AE_Cas(w)
  \/ \E w \in EdgeWorkers : AE_Undo(w)
  \/ Fin_Load
  \/ Fin_Cas
  \/ Fin_Walk
  \/ Fin_Dealloc
  \/ Sim_DeallocateFuture
  \/ \E w \in Inserters : DI_Load(w)
  \/ \E w \in Inserters : DI_CasEmpty(w)
  \/ \E w \in Inserters : DI_CasLeaf(w)
  \/ \E w \in Inserters : DI_Reload(w)
  \/ DW_Finish
  \/ \E j \in Walkers : DW_Mark(j)
  \/ DW_FinishReturns
  \/ \E j \in Walkers : DW_Block(j)
  \/ \E j, j2 \in Walkers : DW_Split(j, j2)
  \/ DF_ParExit
  \/ DF_DeallocateFuture
  \/ \E j \in Walkers : DF_Load(j)
  \/ DF_Return
  \/ \E j \in Walkers : DF_Block(j)
  \/ \E j, j2 \in Walkers : DF_Split(j, j2)

SpecOutsetFree == InitOutsetFree /\ [][NextOutsetFree]_vars

(***************************************************************************)
(* parallel_for(lo, hi, body, k).  The producer runs the range in blocks   *)
(* of communication_delay indices and can be split between two blocks;     *)
(* each node notifies the caller through its out-set when its range is     *)
(* empty, and the caller runs block k when its in-counter reaches zero.    *)
(***************************************************************************)
InitPf ==
  /\ pf_lo \in 0..1
  /\ pf_hi \in pf_lo..MaxPfRange
  /\ pf_delay \in 1..MaxCommDelay
  /\ pf_pc = "entry"
  /\ pf_nodes = [n \in PfNodes |-> NoPfNode]
  /\ pf_app = [i \in PfIndices |-> 0]
  /\ pf_obs = <<>>
  /\ tin = [t \in Targets |-> [tag |-> UNARY_TAG, val |-> 0]]
  /\ sched = [t \in Targets |-> 0]
  /\ SimpleOff
  /\ FaOff
  /\ DagOff
  /\ DynOutOff
  /\ DynInOff
  /\ InPortOff
  /\ PortMapOff
  /\ OutPortOff
  /\ SnziOff
  /\ BenchOff
  /\ NodePortsOff

\* node::parallel_for: the producer gets the whole range, the caller a new
\* in-counter (incounter_new, the fetch-add counter of the simple algorithm)
\* with the edge of the producer, and the producer is added
PF_Call ==
  /\ pf_pc = "entry"
  /\ pf_pc' = "wait"
  /\ pf_nodes' = [pf_nodes EXCEPT ![0] = [pc |-> "process", lo |-> pf_lo, hi |-> pf_hi]]
  /\ tin' = [tin EXCEPT ![Join] = IncrementWord([tag |-> FETCH_ADD_TAG, val |-> 0])]
  /\ UNCHANGED <<sched, pf_lo, pf_hi, pf_delay, pf_app, pf_obs>>
  /\ UNCHANGED pfOthers

\* the block that leaves the range unclamped
BlockEndUnclamped(lo, hi, delay) == lo + delay

\* long n = std::min(hi, lo + (long)communication_delay)
BlockEnd(lo, hi, delay) == IF hi < lo + delay THEN hi ELSE lo + delay

\* lazy_parallel_for_rec::body, process_block
PF_Process(n) ==
  /\ pf_nodes[n].pc = "process"
  /\ LET x == pf_nodes[n]
         e == BlockEnd(x.lo, x.hi, pf_delay)
     IN /\ pf_app' = [i \in PfIndices |-> IF x.lo <= i /\ i < e THEN pf_app[i] + 1
                                            ELSE pf_app[i]]
        /\ pf_nodes' = [pf_nodes EXCEPT ![n].lo = IF x.lo < e THEN e ELSE x.lo,
                                        ![n].pc = "repeat"]
  /\ UNCHANGED <<tinVars, pf_lo, pf_hi, pf_delay, pf_pc, pf_obs>>
  /\ UNCHANGED pfOthers

\* lazy_parallel_for_rec::body, repeat_block: back to process_block, or the
\* node ends and its out-set notifies the caller
PF_Repeat(n) ==
  /\ pf_nodes[n].pc = "repeat"
  /\ IF pf_nodes[n].lo < pf_nodes[n].hi
       THEN /\ pf_nodes' = [pf_nodes EXCEPT ![n].pc = "process"]
            /\ UNCHANGED tinVars
       ELSE /\ pf_nodes' = [pf_nodes EXCEPT ![n].pc = "done"]
            /\ decrement_incounter(Join)
  /\ UNCHANGED <<pf_lo, pf_hi, pf_delay, pf_pc, pf_app, pf_obs>>
  /\ UNCHANGED pfOthers

\* long mid = (hi + lo) / 2
SplitMid(lo, hi) == (hi + lo) \div 2

\* a plausible slip: split makes the sibling and forgets hi = mid
PF_SplitKeepsHi(n, n2) ==
  /\ pf_nodes[n].pc \in {"process", "repeat"}
  /\ pf_nodes[n].hi - pf_nodes[n].lo >= 2
  /\ pf_nodes[n2].pc = "unborn"
  /\ \A n3 \in PfNodes : pf_nodes[n3].pc = "unborn" => n2 <= n3
  /\ LET mid == SplitMid(pf_nodes[n].lo, pf_nodes[n].hi)
     IN pf_nodes' = [pf_nodes EXCEPT ![n2] = [pc |-> "process", lo |-> mid,
                                               hi |-> pf_nodes[n].hi]]
  /\ increment_incounter(Join)
  /\ UNCHANGED <<pf_lo, pf_hi, pf_delay, pf_pc, pf_app, pf_obs>>
  /\ UNCHANGED pfOthers

\* lazy_parallel_for_rec::split, called by the scheduler on a node that is
\* between two blocks and has at least two indices left
PF_Split(n, n2) ==
  /\ pf_nodes[n].pc \in {"process", "repeat"}
  /\ pf_nodes[n].hi - pf_nodes[n].lo >= 2
  /\ pf_nodes[n2].pc = "unborn"
  /\ \A n3 \in PfNodes : pf_nodes[n3].pc = "unborn" => n2 <= n3
  /\ LET mid == SplitMid(pf_nodes[n].lo, pf_nodes[n].hi)
     IN pf_nodes' = [pf_nodes EXCEPT ![n2] = [pc |-> "process", lo |-> mid,
                                               hi |-> pf_nodes[n].hi],
                                     ![n].hi = mid]
  /\ increment_incounter(Join)
  /\ UNCHANGED <<pf_lo, pf_hi, pf_delay, pf_pc, pf_app, pf_obs>>
  /\ UNCHANGED pfOthers

\* the caller was scheduled and runs block k (parallel_for_test: exit, which
\* checks the array)
PF_Exit ==
  /\ pf_pc = "wait"
  /\ sched[Join] >= 1
  /\ pf_pc' = "exit"
  /\ pf_obs' = pf_app
  /\ UNCHANGED <<tinVars, pf_lo, pf_hi, pf_delay, pf_nodes, pf_app>>
  /\ UNCHANGED pfOthers

NextPf ==
  \/ PF_Call
  \/ \E n \in PfNodes : PF_Process(n)
  \/ \E n \in PfNodes : PF_Repeat(n)
  \/ \E n, n2 \in PfNodes : PF_Split(n, n2)
  \/ PF_Exit

SpecPf == InitPf /\ [][NextPf]_vars

(***************************************************************************)
(* The port-passing in-counter under tasks that fork and end.  Task 0 gets *)
(* the first port (finish: increment_incounter(consumer), insert_inport);  *)
(* a task that forks runs propagate_ports_for, whose fork_in_ports_for     *)
(* replaces its port; a task that ends runs decrement_inports.             *)
(***************************************************************************)
InitInPort ==
  /\ ip_nodes = [p \in InPorts |-> NoInPort]
  /\ ip_task = [t \in PortTasks |-> NoPortTask]
  /\ ip_err = FALSE
  /\ TinOff
  /\ SimpleOff
  /\ FaOff
  /\ DagOff
  /\ DynOutOff
  /\ DynInOff
  /\ PfOff
  /\ PortMapOff
  /\ OutPortOff
  /\ SnziOff
  /\ BenchOff
  /\ NodePortsOff

\* incounter::increment(port), port == nullptr: branch1 = new incounter_node
increment_first(nodes, b1) ==
  [nodes EXCEPT ![b1] = [st |-> "live", parent |-> NullPtr, nb |-> 0]]

\* the second branch is left without its parent
increment_orphan(nodes, port, b1, b2) ==
  [nodes EXCEPT ![b1] = [st |-> "live", parent |-> port, nb |-> 0],
                ![b2] = [st |-> "live", parent |-> NullPtr, nb |-> 0]]

\* incounter::increment(port), port != nullptr: two new nodes below port
increment(nodes, port, b1, b2) ==
  [nodes EXCEPT ![b1] = [st |-> "live", parent |-> port, nb |-> 0],
                ![b2] = [st |-> "live", parent |-> port, nb |-> 0]]

\* the node that new gives: one that was never allocated
FreshInPort(nodes, b) ==
  /\ nodes[b].st = "unborn"
  /\ \A b3 \in InPorts : nodes[b3].st = "unborn" => b <= b3

\* incounter::increment(): the first port, given to task 0
IP_First ==
  /\ ip_task[0].st = "unborn"
  /\ ip_nodes' = increment_first(ip_nodes, 0)
  /\ ip_task' = [ip_task EXCEPT ![0] = [NoPortTask EXCEPT !.st = "running", !.port = 0]]
  /\ UNCHANGED ip_err
  /\ UNCHANGED inPortOthers

\* fork_in_ports_for(parent_ports, child_ports) on the entry of the
\* in-counter, after propagate_ports_for gave the child the entry of its parent
IP_Fork(t, t2) ==
  /\ ip_task[t].st = "running"
  /\ ip_task[t2].st = "unborn"
  /\ \A t3 \in PortTasks : ip_task[t3].st = "unborn" => t2 <= t3
  /\ \E b1, b2 \in InPorts :
        /\ FreshInPort(ip_nodes, b1)
        /\ FreshInPort(increment_first(ip_nodes, b1), b2)
        /\ ip_nodes' = increment(ip_nodes, ip_task[t].port, b1, b2)
        /\ ip_task' = [ip_task EXCEPT ![t].port = b1,
                                      ![t2] = [NoPortTask EXCEPT !.st = "running",
                                                                 !.port = b2]]
  /\ UNCHANGED ip_err
  /\ UNCHANGED inPortOthers

\* every decrement would end at once as the one that activates
WalkEndsAtOnce(next) == TRUE

\* while (next != nullptr)
WalkEnds(next) == next = NullPtr

\* the walk of decrement moves to its next turn: at the root it deletes
\* current and returns activated, below it deletes current and goes on to
\* load nb_removed_children of next
DecrementTurn(nodes, x, cur, next) ==
  [nodes |-> [nodes EXCEPT ![cur].st = "freed"],
   task |-> IF WalkEnds(next)
              THEN [x EXCEPT !.st = "done", !.cur = NullPtr, !.next = NullPtr,
                             !.ret = activated]
              ELSE [x EXCEPT !.st = "load", !.cur = cur, !.next = next],
   err |-> nodes[cur].st # "live"]

\* decrement_inports of a task that ends: incounter::decrement(port),
\* current = port, next = current->parent
IP_Decrement(t) ==
  /\ ip_task[t].st = "running"
  /\ LET port == ip_task[t].port
         r == DecrementTurn(ip_nodes, ip_task[t], port, ip_nodes[port].parent)
     IN /\ ip_nodes' = r.nodes
        /\ ip_task' = [ip_task EXCEPT ![t] = r.task]
        /\ ip_err' = (ip_err \/ r.err)
  /\ UNCHANGED inPortOthers

\* incounter::decrement: next->nb_removed_children.load() != 0, and the
\* break to current = next, next = next->parent
IP_Load(t) ==
  /\ ip_task[t].st = "load"
  /\ LET x == ip_task[t]
     IN IF ip_nodes[x.next].nb # 0
          THEN LET r == DecrementTurn(ip_nodes, x, x.next, ip_nodes[x.next].parent)
               IN /\ ip_nodes' = r.nodes
                  /\ ip_task' = [ip_task EXCEPT ![t] = r.task]
                  /\ ip_err' = (ip_err \/ r.err)
          ELSE /\ ip_task' = [ip_task EXCEPT ![t].st = "cas"]
               /\ ip_err' = (ip_err \/ ip_nodes[x.next].st # "live")
               /\ UNCHANGED ip_nodes
  /\ UNCHANGED inPortOthers

\* incounter::decrement: nb_removed_children.compare_exchange_strong(0, 1)
IP_Cas(t) ==
  /\ ip_task[t].st = "cas"
  /\ LET x == ip_task[t]
     IN /\ IF ip_nodes[x.next].nb = 0
             THEN /\ ip_nodes' = [ip_nodes EXCEPT ![x.next].nb = 1]
                  /\ ip_task' = [ip_task EXCEPT ![t] =
                                   [x EXCEPT !.st = "done", !.cur = NullPtr,
                                             !.next = NullPtr, !.ret = not_activated]]
             ELSE /\ ip_task' = [ip_task EXCEPT ![t].st = "load"]
                  /\ UNCHANGED ip_nodes
        /\ ip_err' = (ip_err \/ ip_nodes[x.next].st # "live")
  /\ UNCHANGED inPortOthers

NextInPort ==
  \/ IP_First
  \/ \E t, t2 \in PortTasks : IP_Fork(t, t2)
  \/ \E t \in PortTasks : IP_Decrement(t)
  \/ \E t \in PortTasks : IP_Load(t)
  \/ \E t \in PortTasks : IP_Cas(t)

SpecInPort == InitInPort /\ [][NextInPort]_vars

(***************************************************************************)
(* propagate_ports_for(parent, child): the maps of the child are made from *)
(* those of the parent according to the modes of the child, and the ports  *)
(* that both hold are forked.  The finished walk of an out-set may freeze  *)
(* the slots of the port that the parent holds, at any time.               *)
(***************************************************************************)
\* the maps with the keys of any subset of PortKeys and the port v
MapsTo(v) == UNION {[K -> {v}] : K \in SUBSET PortKeys}

InitPortMap ==
  /\ pm_parent \in [in : MapsTo("p"), out : MapsTo("p")]
  /\ pm_child \in [in : MapsTo("c"), out : MapsTo("c")]
  /\ pm_mode \in [in : PortModes, out : PortModes]
  /\ pm_frozen = [k \in PortKeys |-> 0]
  /\ pm_pre = <<>>
  /\ TinOff
  /\ SimpleOff
  /\ FaOff
  /\ DagOff
  /\ DynOutOff
  /\ DynInOff
  /\ PfOff
  /\ InPortOff
  /\ OutPortOff
  /\ SnziOff
  /\ BenchOff
  /\ NodePortsOff

\* intersect_with(source, destination): the new destination
intersect_with(source, destination) ==
  [k \in {k2 \in DOMAIN source : k2 \in DOMAIN destination} |-> source[k]]

\* the difference taken for the intersection
difference_with_same(source, destination) == intersect_with(source, destination)

\* difference_with(source, destination): the new destination
difference_with(source, destination) ==
  [k \in {k2 \in DOMAIN source : k2 \notin DOMAIN destination} |-> source[k]]

\* propagate_ports_for(mode, parent_ports, child_ports): the new child_ports
propagate_ports_mode(mode, parent_ports, child_ports) ==
  CASE mode = port_passing_default -> parent_ports
    [] mode = port_passing_intersection -> intersect_with(parent_ports, child_ports)
    [] mode = port_passing_difference -> difference_with(parent_ports, child_ports)

\* fork_in_ports_for: the entries of the keys that both maps have become the
\* two branches of increment(port)
fork_in_ports_for(parent_ports, child_ports) ==
  [parent |-> [k \in DOMAIN parent_ports |->
                 IF k \in DOMAIN child_ports THEN "b1" ELSE parent_ports[k]],
   child |-> [k \in DOMAIN child_ports |->
                 IF k \in DOMAIN parent_ports THEN "b2" ELSE child_ports[k]]]

\* outset::fork2(port) fails when a compare-exchange on children[1], then on
\* children[0], finds the slot frozen
fork2_fails(frozen) == frozen >= 1

\* fork_out_ports_for: as for the in-ports, but the keys whose fork2 failed
\* are erased from both maps
fork_out_ports_for(parent_ports, child_ports, frozen) ==
  LET both == DOMAIN parent_ports \cap DOMAIN child_ports
      to_erase == {k \in both : fork2_fails(frozen[k])}
  IN [parent |-> [k \in DOMAIN parent_ports \ to_erase |->
                    IF k \in both THEN "b1" ELSE parent_ports[k]],
      child |-> [k \in DOMAIN child_ports \ to_erase |->
                    IF k \in both THEN "b2" ELSE child_ports[k]]]

\* propagate_ports_for(node* parent, node* child)
PM_Propagate ==
  /\ pm_pre = <<>>
  /\ LET ins == fork_in_ports_for(pm_parent.in,
                  propagate_ports_mode(pm_mode.in, pm_parent.in, pm_child.in))
         outs == fork_out_ports_for(pm_parent.out,
                   propagate_ports_mode(pm_mode.out, pm_parent.out, pm_child.out),
                   pm_frozen)
     IN /\ pm_parent' = [in |-> ins.parent, out |-> outs.parent]
        /\ pm_child' = [in |-> ins.child, out |-> outs.child]
  /\ pm_pre' = [parent |-> pm_parent, child |-> pm_child, frozen |-> pm_frozen]
  /\ UNCHANGED <<pm_mode, pm_frozen>>
  /\ UNCHANGED portMapOthers

\* notify_outset_tree_nodes_partial of out-set k at the port that the parent
\* holds at the call: children[0] is frozen, then children[1]
PM_Freeze(k) ==
  /\ pm_pre = <<>>
  /\ pm_frozen[k] < 2
  /\ pm_frozen' = [pm_frozen EXCEPT ![k] = @ + 1]
  /\ UNCHANGED <<pm_parent, pm_child, pm_mode, pm_pre>>
  /\ UNCHANGED portMapOthers

NextPortMap ==
  \/ PM_Propagate
  \/ \E k \in PortKeys : PM_Freeze(k)

SpecPortMap == InitPortMap /\ [][NextPortMap]_vars

(***************************************************************************)
(* The port-passing out-set of a future under tasks that fork their port   *)
(* (fork_out_ports_for) and force the future (insert), while the producer  *)
(* runs finished() and the tasks of its walk.                              *)
(***************************************************************************)
\* after future(producer, out, k): the out-set has its root, and the caller
\* holds it as its port (listen_on: find_leaf)
InitOutPort ==
  /\ op_nodes = [n \in OutPorts |-> IF n = OutRootPort THEN NewOutPort ELSE NoOutPort]
  /\ op_task = [t \in OutTasks |->
                  IF t = 0 THEN [NoOutTask EXCEPT !.st = "running", !.port = OutRootPort]
                           ELSE NoOutTask]
  /\ op_wk = [j \in OutWalkers |-> NoWalker]
  /\ op_delay \in 1..MaxCommDelay
  /\ op_fin = "none"
  /\ op_notified = [t \in OutTasks |-> 0]
  /\ op_added = [t \in OutTasks |-> 0]
  /\ op_err = FALSE
  /\ TinOff
  /\ SimpleOff
  /\ FaOff
  /\ DagOff
  /\ DynOutOff
  /\ DynInOff
  /\ PfOff
  /\ InPortOff
  /\ PortMapOff
  /\ SnziOff
  /\ BenchOff
  /\ NodePortsOff

\* the node that new gives
FreshOutPort(n) ==
  /\ op_nodes[n].st = "unborn"
  /\ \A n3 \in OutPorts : op_nodes[n3].st = "unborn" => n <= n3

\* the compare-exchange takes no notice of the tag
CasFromNullUntagged(child) == child.p = NullPtr

\* compare_exchange_strong(orig, next) with orig == nullptr
CasFromNull(child) == child.p = NullPtr /\ ~child.frozen

\* the task that the next fork creates
FreshOutTask(t2) ==
  /\ op_task[t2].st = "unborn"
  /\ \A t3 \in OutTasks : op_task[t3].st = "unborn" => t2 <= t3

\* fork_out_ports_for -> fork2(port), i = 1: branches[1] = new outset_node and
\* the compare-exchange on children[1]; on failure the key is erased from the
\* maps of the parent and of the child
OP_Fork1(t, t2) ==
  /\ op_task[t].st = "running"
  /\ op_task[t].port # NullPtr
  /\ FreshOutTask(t2)
  /\ LET port == op_task[t].port
     IN IF CasFromNull(op_nodes[port].c[1])
          THEN \E b \in OutPorts :
                 /\ FreshOutPort(b)
                 /\ op_nodes' = [op_nodes EXCEPT ![b] = NewOutPort,
                                                 ![port].c[1].p = b]
                 /\ op_task' = [op_task EXCEPT ![t].st = "fork0", ![t].b = b,
                                               ![t].child = t2, ![t2].st = "new"]
          ELSE /\ op_task' = [op_task EXCEPT ![t].port = NullPtr,
                                            ![t2] = [NoOutTask EXCEPT !.st = "running"]]
               /\ UNCHANGED op_nodes
  /\ UNCHANGED <<op_wk, op_delay, op_fin, op_notified, op_added, op_err>>
  /\ UNCHANGED outPortOthers

\* fork2(port), i = 0, and the rest of fork_out_ports_for: the parent gets
\* branches[0] and the child branches[1], or the key is erased from both
OP_Fork0(t, t2) ==
  /\ op_task[t].st = "fork0"
  /\ t2 = op_task[t].child
  /\ LET port == op_task[t].port
     IN IF CasFromNull(op_nodes[port].c[0])
          THEN \E b \in OutPorts :
                 /\ FreshOutPort(b)
                 /\ op_nodes' = [op_nodes EXCEPT ![b] = NewOutPort,
                                                 ![port].c[0].p = b]
                 /\ op_task' = [op_task EXCEPT
                                  ![t] = [NoOutTask EXCEPT !.st = "running", !.port = b],
                                  ![t2] = [NoOutTask EXCEPT !.st = "running",
                                                            !.port = op_task[t].b]]
          ELSE /\ op_task' = [op_task EXCEPT
                                ![t] = [NoOutTask EXCEPT !.st = "running"],
                                ![t2] = [NoOutTask EXCEPT !.st = "running"]]
               /\ UNCHANGED op_nodes
  /\ UNCHANGED <<op_wk, op_delay, op_fin, op_notified, op_added, op_err>>
  /\ UNCHANGED outPortOthers

\* a plausible slip: is_finished looks at the pointer, not at its tag
is_finished_by_pointer(child) == child.p # NullPtr

\* outset::is_finished(): the tag of root->children[0] is frozen_tag
is_finished(child) == child.frozen

\* force calls add_node(consumer) on every status, not only on insert_fail
ForceAddsAlways(status) == TRUE

\* node::force: else if (insert_status == outset::insert_fail) add_node(consumer)
ForceAdds(status) == status = insert_fail

\* the add_node calls of task t after its force got status
add_node_in_force(t, status) ==
  [op_added EXCEPT ![t] = IF ForceAdds(status) THEN @ + 1 ELSE @]

\* node::force: is_finished() in force and again in insert; when it is not,
\* find_outport, whose assertion fails if the task has no port for the out-set
OP_Force(t) ==
  /\ op_task[t].st = "running"
  /\ IF is_finished(op_nodes[OutRootPort].c[0])
       THEN /\ op_task' = [op_task EXCEPT ![t].st = "done", ![t].res = insert_fail]
            /\ op_added' = add_node_in_force(t, insert_fail)
            /\ UNCHANGED op_err
       ELSE /\ op_task' = [op_task EXCEPT ![t].st = "cas"]
            /\ op_err' = (op_err \/ op_task[t].port = NullPtr)
            /\ UNCHANGED op_added
  /\ UNCHANGED <<op_nodes, op_wk, op_delay, op_fin, op_notified>>
  /\ UNCHANGED outPortOthers

\* outset::insert: next = new outset_node with the target, and
\* outport->children[0].compare_exchange_strong(nullptr, next)
OP_Cas(t) ==
  /\ op_task[t].st = "cas"
  /\ op_task[t].port # NullPtr
  /\ LET port == op_task[t].port
     IN IF CasFromNull(op_nodes[port].c[0])
          THEN \E b \in OutPorts :
                 /\ FreshOutPort(b)
                 /\ op_nodes' = [op_nodes EXCEPT ![b] = [NewOutPort EXCEPT !.target = t],
                                                 ![port].c[0].p = b]
                 /\ op_task' = [op_task EXCEPT ![t].st = "done",
                                               ![t].res = insert_success]
                 /\ op_added' = add_node_in_force(t, insert_success)
          ELSE /\ op_task' = [op_task EXCEPT ![t].st = "done", ![t].res = insert_fail,
                                            ![t].lost = TRUE]
               /\ op_added' = add_node_in_force(t, insert_fail)
               /\ UNCHANGED op_nodes
  /\ UNCHANGED <<op_wk, op_delay, op_fin, op_notified, op_err>>
  /\ UNCHANGED outPortOthers

\* notify_outset_tree_nodes_partial: (k < communication_delay) && (! todo.empty()),
\* and n = todo.back(), todo.pop_back() when it passes
OutPartialStep(x) ==
  IF x.k < op_delay /\ x.todo # <<>>
    THEN [x EXCEPT !.pc = "visit", !.cur = x.todo[Len(x.todo)],
                   !.todo = SubSeq(x.todo, 1, Len(x.todo) - 1), !.i = 0]
    ELSE [x EXCEPT !.pc = "return", !.cur = 0, !.i = 0]

\* outset::finished -> notify_outset_tree_nodes: todo.push_back(out->root)
OW_Finished ==
  /\ op_fin = "none"
  /\ op_fin' = "running"
  /\ op_wk' = [op_wk EXCEPT ![0] = OutPartialStep([NoWalker EXCEPT !.todo = <<OutRootPort>>])]
  /\ UNCHANGED <<op_nodes, op_task, op_delay, op_notified, op_added, op_err>>
  /\ UNCHANGED outPortOthers

\* notify_outset_tree_nodes_partial: if (n->target != nullptr)
\* decrement_incounter(n->target, n->port)
OW_Visit(j) ==
  /\ op_wk[j].pc = "visit"
  /\ LET tg == op_nodes[op_wk[j].cur].target
     IN op_notified' = IF tg # NullPtr THEN [op_notified EXCEPT ![tg] = @ + 1]
                                       ELSE op_notified
  /\ op_wk' = [op_wk EXCEPT ![j].pc = "freeze"]
  /\ UNCHANGED <<op_nodes, op_task, op_delay, op_fin, op_added, op_err>>
  /\ UNCHANGED outPortOthers

\* notify_outset_tree_nodes_partial: children[i] gets the tag frozen_tag (the
\* load and the compare-exchange that succeeds, in one step), and what it held
\* is pushed; after children[1], k++ and the test of the loop
OW_Freeze(j) ==
  /\ op_wk[j].pc = "freeze"
  /\ LET x == op_wk[j]
         orig == op_nodes[x.cur].c[x.i]
         y == [x EXCEPT !.todo = IF orig.p # NullPtr THEN Append(@, orig.p) ELSE @]
     IN /\ op_nodes' = [op_nodes EXCEPT ![x.cur].c[x.i].frozen = TRUE]
        /\ op_wk' = [op_wk EXCEPT ![j] =
                       IF x.i = 1 THEN OutPartialStep([y EXCEPT !.k = x.k + 1])
                                  ELSE [y EXCEPT !.i = 1]]
        /\ op_err' = (op_err \/ orig.frozen)
  /\ UNCHANGED <<op_task, op_delay, op_fin, op_notified, op_added>>
  /\ UNCHANGED outPortOthers

\* notify_outset_tree_nodes after the partial walk: the rest of todo goes to
\* the tasks, and finished() returns
OW_Returns ==
  /\ op_wk[0].pc = "return"
  /\ op_fin' = "returned"
  /\ op_wk' = [op_wk EXCEPT ![0] = [NoWalker EXCEPT !.pc = "done"],
                            ![1] = IF op_wk[0].todo # <<>>
                                     THEN [NoWalker EXCEPT !.pc = "ready",
                                                           !.todo = op_wk[0].todo]
                                     ELSE @]
  /\ UNCHANGED <<op_nodes, op_task, op_delay, op_notified, op_added, op_err>>
  /\ UNCHANGED outPortOthers

\* notify_outset_tree_nodes_par_rec::body
OW_Block(j) ==
  /\ j # 0
  /\ op_wk[j].pc \in {"ready", "return"}
  /\ op_wk' = [op_wk EXCEPT ![j] = IF op_wk[j].todo = <<>>
                                     THEN [NoWalker EXCEPT !.pc = "done"]
                                     ELSE OutPartialStep([op_wk[j] EXCEPT !.k = 0])]
  /\ UNCHANGED <<op_nodes, op_task, op_delay, op_fin, op_notified, op_added, op_err>>
  /\ UNCHANGED outPortOthers

\* notify_outset_tree_nodes_par_rec::split: the front of todo goes to a new task
OW_Split(j, j2) ==
  /\ j # 0 /\ j2 # 0
  /\ op_wk[j].pc \in {"ready", "return"}
  /\ Len(op_wk[j].todo) >= 2
  /\ op_wk[j2].pc = "unborn"
  /\ \A j3 \in OutWalkers : j3 # 0 /\ op_wk[j3].pc = "unborn" => j2 <= j3
  /\ op_wk' = [op_wk EXCEPT ![j].todo = Tail(@),
                            ![j2] = [NoWalker EXCEPT !.pc = "ready",
                                                     !.todo = <<Head(op_wk[j].todo)>>]]
  /\ UNCHANGED <<op_nodes, op_task, op_delay, op_fin, op_notified, op_added, op_err>>
  /\ UNCHANGED outPortOthers

NextOutPort ==
  \/ \E t, t2 \in OutTasks : OP_Fork1(t, t2)
  \/ \E t, t2 \in OutTasks : OP_Fork0(t, t2)
  \/ \E t \in OutTasks : OP_Force(t)
  \/ \E t \in OutTasks : OP_Cas(t)
  \/ OW_Finished
  \/ \E j \in OutWalkers : OW_Visit(j)
  \/ \E j \in OutWalkers : OW_Freeze(j)
  \/ OW_Returns
  \/ \E j \in OutWalkers : OW_Block(j)
  \/ \E j, j2 \in OutWalkers : OW_Split(j, j2)

SpecOutPort == InitOutPort /\ [][NextOutPort]_vars

\* the scheduler runs every task that is ready (the tasks of the program, the
\* producer's finished() and the tasks of its walk), and each step of a task
\* ends: no step of the out-set stays enabled for ever without being taken
SpecOutPortRun == SpecOutPort /\ WF_vars(NextOutPort)

(***************************************************************************)
(* The distributed in-counter (distributed::distributed_incounter): a SNZI *)
(* tree whose leaves take arrive and depart and whose root is the          *)
(* indicator.  A node of the tree holds a counter and a version, changed   *)
(* by compare-exchange; an arrival from zero sets the counter to one_half, *)
(* arrives at the parent and then sets the counter to one; a depart that   *)
(* takes the counter from one to zero departs from the parent.             *)
(***************************************************************************)
snziOthers == <<tinVars, simpleVars, faVars, dagVars, dynOutVars, dynInVars, i_solo, dynFreeVars, pfVars, inPortVars, portMapVars, outPortVars, benchVars, nodePortsVars>>

\* distributed_incounter(n): nzi(default_branching_factor, default_nb_levels)
InitSnzi ==
  /\ sz_x = [n \in SnziNodes |-> [c |-> 0, v |-> 0]]
  /\ sz_th = [t \in SnziThreads |-> [NoSnziThread EXCEPT !.op = "idle"]]
  /\ sz_tok = [l \in SnziLeaves |-> 0]
  /\ sz_err = FALSE
  /\ TinOff
  /\ SimpleOff
  /\ FaOff
  /\ DagOff
  /\ DynOutOff
  /\ DynInOff
  /\ PfOff
  /\ InPortOff
  /\ PortMapOff
  /\ OutPortOff
  /\ BenchOff
  /\ NodePortsOff

\* tree::is_nonzero(): the indicator of the root
is_nonzero == sz_x[0].c > 0

\* distributed_incounter::is_activated
is_activated == ~is_nonzero

\* the decrement reports not_activated whatever depart returned
distributed_status_never(b) == not_activated

\* distributed_incounter::decrement: return b ? incounter::activated : incounter::not_activated
distributed_status(b) == IF b THEN activated ELSE not_activated

\* the calls a thread is in, innermost last
ArriveCall(n) == [f |-> "arrive", n |-> n, ph |-> "try", x |-> [c |-> 0, v |-> 0],
                  succ |-> FALSE, undo |-> 0, und |-> FALSE]
DepartCall(n, und) == [ArriveCall(n) EXCEPT !.f = "depart", !.und = und]
SnziTop(t) == sz_th[t].st[Len(sz_th[t].st)]
SnziRest(t) == SubSeq(sz_th[t].st, 1, Len(sz_th[t].st) - 1)

\* the thread after the innermost call returned b: the caller goes on, or the
\* operation of the thread is over
SnziReturn(t, b) ==
  IF Len(sz_th[t].st) > 1
    THEN [sz_th[t] EXCEPT !.st = SnziRest(t)]
    ELSE [sz_th[t] EXCEPT !.st = <<>>, !.res = b,
                          !.ret = IF sz_th[t].op = "depart" THEN distributed_status(b)
                                                            ELSE "none",
                          !.op = "idle"]

\* the increments that the threads up to t have called
RECURSIVE SnziIncrements(_)
SnziIncrements(t) == IF t = 0 THEN 0 ELSE sz_th[t].ops + SnziIncrements(t - 1)

\* distributed_incounter::increment(source): nzi.random_leaf_of(source)->arrive()
SZ_Increment(t, l) ==
  /\ sz_th[t].op = "idle"
  /\ SnziIncrements(NbSnziThreads) < MaxSnziOps
  /\ sz_th' = [sz_th EXCEPT ![t] = [@ EXCEPT !.op = "arrive", !.leaf = l, !.ops = @ + 1,
                                             !.st = <<ArriveCall(l)>>, !.ret = "none",
                                             !.zeroed = FALSE]]
  /\ UNCHANGED <<sz_x, sz_tok, sz_err>>
  /\ UNCHANGED snziOthers

\* distributed_incounter::decrement(source): nzi.random_leaf_of(source)->depart(),
\* for a source whose arrive at that leaf has returned
SZ_Decrement(t, l) ==
  /\ sz_th[t].op = "idle"
  /\ sz_tok[l] > 0
  /\ sz_tok' = [sz_tok EXCEPT ![l] = @ - 1]
  /\ sz_th' = [sz_th EXCEPT ![t] = [@ EXCEPT !.op = "depart", !.leaf = l,
                                             !.st = <<DepartCall(l, FALSE)>>,
                                             !.ret = "none", !.zeroed = FALSE]]
  /\ UNCHANGED <<sz_x, sz_err>>
  /\ UNCHANGED snziOthers

\* the operation of the thread is over when its outermost call returns: an
\* arrive that returned can be matched by a depart
SnziTokens(t, th) ==
  IF th.op = "idle" /\ sz_th[t].op = "arrive"
    THEN [sz_tok EXCEPT ![sz_th[t].leaf] = @ + 1]
    ELSE sz_tok

\* arrive at the root: the counter goes up by one
SZ_ArriveRoot(t) ==
  /\ sz_th[t].st # <<>>
  /\ SnziTop(t).f = "arrive" /\ SnziTop(t).n = 0
  /\ sz_x' = [sz_x EXCEPT ![0].c = @ + 1]
  /\ LET th == SnziReturn(t, FALSE)
     IN sz_th' = [sz_th EXCEPT ![t] = th] /\ sz_tok' = SnziTokens(t, th)
  /\ UNCHANGED sz_err
  /\ UNCHANGED snziOthers

\* arrive at a node below the root, one turn of its loop: a counter of one or
\* more goes up by one; a counter of zero becomes one_half with a new version;
\* at one_half (set by this thread or by another) the thread arrives at the
\* parent before it tries to set the counter to one
SZ_ArriveTry(t) ==
  /\ sz_th[t].st # <<>>
  /\ SnziTop(t).f = "arrive" /\ SnziTop(t).n # 0 /\ SnziTop(t).ph = "try"
  /\ LET f == SnziTop(t)
         cur == sz_x[f.n]
         k == Len(sz_th[t].st)
     IN IF cur.c >= 1
          THEN /\ sz_x' = [sz_x EXCEPT ![f.n].c = @ + 1]
               /\ sz_th' = [sz_th EXCEPT ![t].st[k] = [f EXCEPT !.succ = TRUE, !.ph = "undo"]]
          ELSE LET x == IF cur.c = 0 THEN [c |-> one_half, v |-> cur.v + 1] ELSE cur
               IN /\ sz_x' = [sz_x EXCEPT ![f.n] = x]
                  /\ sz_th' = [sz_th EXCEPT ![t].st =
                                 Append([@ EXCEPT ![k] = [f EXCEPT !.succ = (f.succ \/ cur.c = 0),
                                                                   !.x = x, !.ph = "cas"]],
                                        ArriveCall(SnziParent(f.n)))]
  /\ UNCHANGED <<sz_tok, sz_err>>
  /\ UNCHANGED snziOthers

\* after the arrival at the parent: compare-exchange of the counter from the
\* one_half that was read to one; when it fails the arrival at the parent is
\* one too many and is undone later
SZ_ArriveCas(t) ==
  /\ sz_th[t].st # <<>>
  /\ SnziTop(t).f = "arrive" /\ SnziTop(t).ph = "cas"
  /\ LET f == SnziTop(t)
         k == Len(sz_th[t].st)
         ok == sz_x[f.n] = f.x
         g == [f EXCEPT !.undo = IF ok THEN @ ELSE @ + 1,
                        !.ph = IF f.succ THEN "undo" ELSE "try"]
     IN /\ sz_x' = IF ok THEN [sz_x EXCEPT ![f.n].c = 1] ELSE sz_x
        /\ sz_th' = [sz_th EXCEPT ![t].st[k] = g]
  /\ UNCHANGED <<sz_tok, sz_err>>
  /\ UNCHANGED snziOthers

\* the end of arrive: one depart from the parent for each arrival to undo, then
\* the return
SZ_ArriveUndo(t) ==
  /\ sz_th[t].st # <<>>
  /\ SnziTop(t).f = "arrive" /\ SnziTop(t).ph = "undo"
  /\ LET f == SnziTop(t)
         k == Len(sz_th[t].st)
     IN IF f.undo > 0
          THEN /\ sz_th' = [sz_th EXCEPT ![t].st =
                              Append([@ EXCEPT ![k].undo = f.undo - 1],
                                     DepartCall(SnziParent(f.n), TRUE))]
               /\ UNCHANGED sz_tok
          ELSE LET th == SnziReturn(t, FALSE)
               IN sz_th' = [sz_th EXCEPT ![t] = th] /\ sz_tok' = SnziTokens(t, th)
  /\ UNCHANGED <<sz_x, sz_err>>
  /\ UNCHANGED snziOthers

\* depart: the counter goes down by one; from one to zero, at the root the
\* depart returns true, below the root it departs from the parent and returns
\* what that returns
SZ_Depart(t) ==
  /\ sz_th[t].st # <<>>
  /\ SnziTop(t).f = "depart"
  /\ LET f == SnziTop(t)
         k == Len(sz_th[t].st)
         old == sz_x[f.n].c
     IN /\ sz_x' = [sz_x EXCEPT ![f.n].c = IF old >= 1 THEN old - 1 ELSE old]
        /\ sz_err' = (sz_err \/ old < 1 \/ (f.und /\ f.n = 0 /\ old = 1))
        /\ IF old = 1 /\ f.n # 0
             THEN sz_th' = [sz_th EXCEPT ![t].st[k] = DepartCall(SnziParent(f.n), f.und)]
             ELSE sz_th' = [sz_th EXCEPT ![t] =
                              [SnziReturn(t, old = 1 /\ f.n = 0) EXCEPT
                                 !.zeroed = (~f.und /\ old = 1 /\ f.n = 0)]]
  /\ UNCHANGED sz_tok
  /\ UNCHANGED snziOthers

NextSnzi ==
  \/ \E t \in SnziThreads, l \in SnziLeaves : SZ_Increment(t, l)
  \/ \E t \in SnziThreads, l \in SnziLeaves : SZ_Decrement(t, l)
  \/ \E t \in SnziThreads : SZ_ArriveRoot(t)
  \/ \E t \in SnziThreads : SZ_ArriveTry(t)
  \/ \E t \in SnziThreads : SZ_ArriveCas(t)
  \/ \E t \in SnziThreads : SZ_ArriveUndo(t)
  \/ \E t \in SnziThreads : SZ_Depart(t)

SpecSnzi == InitSnzi /\ [][NextSnzi]_vars

(***************************************************************************)
(* The in-counter microbenchmark: benchmark_incounter_thread run by        *)
(* several threads on one simple_incounter_wrapper until should_stop.      *)
(***************************************************************************)
benchOthers == <<tinVars, simpleVars, faVars, dagVars, dynOutVars, dynInVars, i_solo, dynFreeVars, pfVars, inPortVars, portMapVars, outPortVars, snziVars, nodePortsVars>>

\* unsigned arithmetic of 32 bits on the halves
UAdd(a, b) ==
  LET lo == a.lo + b.lo
  IN [hi |-> (a.hi + b.hi + (lo \div Half)) % Half, lo |-> lo % Half]

RECURSIVE Pow2(_)
Pow2(k) == IF k = 0 THEN 1 ELSE 2 * Pow2(k - 1)

\* a << k, k < 16
UShl(a, k) ==
  LET lo == a.lo * Pow2(k)
  IN [hi |-> ((a.hi * Pow2(k)) + (lo \div Half)) % Half, lo |-> lo % Half]

\* a >> k, k >= 16
UShr(a, k) == [hi |-> 0, lo |-> a.hi \div Pow2(k - 16)]

RECURSIVE Xor16(_, _)
Xor16(x, y) ==
  IF x = 0 THEN y
  ELSE IF y = 0 THEN x
  ELSE ((x + y) % 2) + 2 * Xor16(x \div 2, y \div 2)

UXor(a, b) == [hi |-> Xor16(a.hi, b.hi), lo |-> Xor16(a.lo, b.lo)]

\* the constants of hashu, by halves
HashK(i) ==
  CASE i = 1 -> [hi |-> 32469, lo |-> 23830]
    [] i = 2 -> [hi |-> 51041, lo |-> 49724]
    [] i = 3 -> [hi |-> 5718, lo |-> 26545]
    [] i = 4 -> [hi |-> 54178, lo |-> 25708]
    [] i = 5 -> [hi |-> 64880, lo |-> 18117]
    [] OTHER -> [hi |-> 46426, lo |-> 20233]

hashu(a0) ==
  LET a1 == UAdd(UAdd(a0, HashK(1)), UShl(a0, 12))
      a2 == UXor(UXor(a1, HashK(2)), UShr(a1, 19))
      a3 == UAdd(UAdd(a2, HashK(3)), UShl(a2, 5))
      a4 == UXor(UAdd(a3, HashK(4)), UShl(a3, 9))
      a5 == UAdd(UAdd(a4, HashK(5)), UShl(a4, 3))
  IN UXor(UXor(a5, HashK(6)), UShr(a5, 16))

\* launch_microbenchmark: the threads start with the seed of the command line
InitBench ==
  /\ b_counter = 0
  /\ b_stop = FALSE
  /\ \E seed \in 0..MaxSeed :
       b_th = [t \in BenchThreads |-> [NoBenchThread EXCEPT !.pc = "loop", !.rng = U32(seed)]]
  /\ TinOff
  /\ SimpleOff
  /\ FaOff
  /\ DagOff
  /\ DynOutOff
  /\ DynInOff
  /\ PfOff
  /\ InPortOff
  /\ PortMapOff
  /\ OutPortOff
  /\ SnziOff
  /\ NodePortsOff

\* simple_incounter_wrapper::decrement: return counter-- == 0
wrapper_decrement(old) == old = 0

\* benchmark_incounter_thread: nb_pending_increments > 0 && rng % 2 == 0
MayDecrement(x) == x.pend > 0 /\ x.rng.lo % 2 = 0

\* the thread after incounter.decrement(my_id) on a counter that held old
BenchDecrement(x, old) ==
  [x EXCEPT !.decs = @ + 1, !.bad = @ \/ x.incs = x.decs, !.old = old,
            !.ret = wrapper_decrement(old)]

\* launch_microbenchmark sets should_stop after nb_milliseconds
B_Stop ==
  /\ b_th[1].pc # "off"
  /\ ~b_stop
  /\ b_stop' = TRUE
  /\ UNCHANGED <<b_counter, b_th>>
  /\ UNCHANGED benchOthers

\* one turn of while (! should_stop): a decrement or an increment, rng =
\* hashu(rng), c++; or the end of the loop
B_Loop(t) ==
  /\ b_th[t].pc = "loop"
  /\ LET x == b_th[t]
     IN IF b_stop
          THEN /\ b_th' = [b_th EXCEPT ![t].pc = "drain"]
               /\ UNCHANGED b_counter
          ELSE /\ x.c < MaxBenchOps
               /\ IF MayDecrement(x)
                    THEN /\ b_counter' = b_counter - 1
                         /\ b_th' = [b_th EXCEPT ![t] =
                                       [BenchDecrement(x, b_counter) EXCEPT
                                          !.rng = hashu(x.rng), !.c = @ + 1]]
                    ELSE /\ b_counter' = b_counter + 1
                         /\ b_th' = [b_th EXCEPT ![t] =
                                       [x EXCEPT !.pend = @ + 1, !.incs = @ + 1,
                                                 !.rng = hashu(x.rng), !.c = @ + 1]]
  /\ UNCHANGED b_stop
  /\ UNCHANGED benchOthers

\* one turn of while (nb_pending_increments > 0): decrement,
\* nb_pending_increments--, c++; or counter = c and the return
B_Drain(t) ==
  /\ b_th[t].pc = "drain"
  /\ LET x == b_th[t]
     IN IF x.pend > 0
          THEN /\ b_counter' = b_counter - 1
               /\ b_th' = [b_th EXCEPT ![t] =
                             [BenchDecrement(x, b_counter) EXCEPT
                                !.pend = @ - 1, !.c = @ + 1]]
          ELSE /\ b_th' = [b_th EXCEPT ![t].pc = "done"]
               /\ UNCHANGED b_counter
  /\ UNCHANGED b_stop
  /\ UNCHANGED benchOthers

NextBench ==
  \/ B_Stop
  \/ \E t \in BenchThreads : B_Loop(t)
  \/ \E t \in BenchThreads : B_Drain(t)

SpecBench == InitBench /\ [][NextBench]_vars

(***************************************************************************)
(* Claims                                                                  *)
(***************************************************************************)
AeDone(w) == ae_pc[w] = "done"

\* C1: every add_edge racing with the finish of the source's simple out-set
\* has its increment of the target matched by exactly one decrement: the one
\* of finish's walk if insert returned insert_success, the one of add_edge
\* itself if insert returned insert_fail; never both, and never neither once
\* add_edge and finish have both returned.
C1_ExactlyOneDecrement ==
  \A w \in EdgeWorkers :
    /\ ae_decSelf[w] + ae_decFin[w] <= ae_incs[w]
    /\ ae_incs[w] <= 1
    /\ ae_res[w] = insert_success => ae_decSelf[w] = 0
    /\ ae_res[w] = insert_fail => ae_decFin[w] = 0
    /\ (AeDone(w) /\ ae_res[w] = insert_fail) => ae_decSelf[w] = 1
    /\ (ae_res[w] = insert_success /\ fin_pc = "done") => ae_decFin[w] = 1
    /\ (AeDone(w) /\ fin_pc = "done") => ae_decSelf[w] + ae_decFin[w] = 1

\* both paths taken in one run: one edge undone by add_edge, one notified by finish
C1_Witness ==
  /\ fin_pc = "done"
  /\ \E w \in EdgeWorkers : AeDone(w) /\ ae_res[w] = insert_fail /\ ae_decSelf[w] = 1
  /\ \E w \in EdgeWorkers : AeDone(w) /\ ae_res[w] = insert_success /\ ae_decFin[w] = 1

\* C6: once finish has swung head to (null, finished), head never changes
\* again (no cell is linked), and an insert entered after that returns
\* insert_fail.
C6_FinishedBarrier ==
  /\ [][head.fin => head' = FinishedHead]_vars
  /\ [](\A w \in EdgeWorkers :
          ae_late[w] => /\ ae_res[w] # insert_success
                        /\ AeDone(w) => ae_res[w] = insert_fail)

\* an insert entered after the swing has returned insert_fail
C6_Witness ==
  \E w \in EdgeWorkers :
    ae_late[w] /\ AeDone(w) /\ ae_res[w] = insert_fail /\ head = FinishedHead

AbrNodes == {n \in DOMAIN d_nodes : n[1] = "abr"}
Readers == {n \in DOMAIN d_nodes : n[1] = "fr"}
FutureBody == <<"fb", 0, 0>>

\* C3: after finish(producer, k) the caller's in-counter is not zero while the
\* producer or a node spawned under it by async (with the caller as consumer)
\* is unfinished, so block k runs after all of them; in async_bintree(n),
\* n >= 1, the exit block reads leaf counter n and interior counter n - 1.
C3_FinishWaitsForAsyncs ==
  d_prog.name = "ab" =>
    LET root == d_nodes[Root]
        allDone == /\ AbrNodes # {}
                   /\ \A r \in AbrNodes : d_nodes[r].dead
                   /\ d_ctr.leaf = d_prog.n
                   /\ d_ctr.interior = d_prog.n - 1
    IN /\ (root.in.tag = FETCH_ADD_TAG /\ root.in.val = 0) => allDone
       /\ root.cur = 1 => allDone
       /\ root.in.tag = FETCH_ADD_TAG => root.in.val >= 0
       /\ root.obs # <<>> => root.obs = <<d_prog.n, d_prog.n - 1>>
       /\ root.nrun <= 2
       /\ ~d_err

\* the exit block of async_bintree(MaxN) has run
C3_Witness ==
  /\ d_prog = [name |-> "ab", n |-> MaxN]
  /\ d_nodes[Root].obs = <<MaxN, MaxN - 1>>
  /\ d_nodes[Root].dead

\* C4: a node that calls force(out, k) on a future is scheduled for block k
\* exactly once, by force itself if the insertion failed and by the out-set's
\* finish otherwise; block k runs after the producer's final block; with n
\* readers, n continuations run and each reads the producer's result.
C4_ForceSchedulesOnce ==
  d_prog.name = "fp" =>
    /\ \A r \in Readers :
         LET x == d_nodes[r] IN
         /\ x.ks <= 1
         /\ x.nrun <= 2
         /\ x.ins = insert_fail => x.kby = "force"
         /\ x.ins = insert_success => x.kby \in {"none", "finish"}
         /\ x.ins # "none" => x.ks = (IF x.kby = "none" THEN 0 ELSE 1)
         /\ x.cur = 1 => /\ d_nodes[FutureBody].dead
                         /\ d_fut.head.fin
                         /\ x.ks = 1
         /\ x.obs # <<>> => x.obs = <<fib(fib_input)>>
    /\ d_nodes[Root].obs # <<>> =>
         /\ d_nodes[Root].obs = <<d_prog.n>>
         /\ Cardinality(Readers) = d_prog.n
         /\ \A r \in Readers : d_nodes[r].dead /\ d_nodes[r].nrun = 2
    /\ ~d_err

\* future_pool(MaxN) has ended; one reader was scheduled by its own force and
\* another by the future's finish
C4_Witness ==
  /\ d_prog = [name |-> "fp", n |-> MaxN]
  /\ d_nodes[Root].obs = <<MaxN>>
  /\ \E r \in Readers : d_nodes[r].kby = "force" /\ d_nodes[r].obs = <<fib(fib_input)>>
  /\ \E r \in Readers : d_nodes[r].kby = "finish" /\ d_nodes[r].obs = <<fib(fib_input)>>

FaAllDone == \A w \in FaWorkers : fa_incs[w] = NbFaRounds /\ fa_decs[w] = NbFaRounds

\* C2 as stated: whenever every decrement follows its matching increment, the
\* target is handed to the scheduler exactly once.
C2_Original == FaAllDone => sched[FaTarget] = 1

\* C2 as amended: the target is handed to the scheduler once for each
\* transition of the count from 1 to 0, by the decrement whose fetch-and-add
\* returned 1 and by no other; the count is never negative, and it is zero
\* when all decrements are done.
C2_OncePerZeroTransition ==
  /\ [](/\ sched[FaTarget] = fa_zero
        /\ tin[FaTarget].val >= 0
        /\ (FaAllDone => tin[FaTarget].val = 0 /\ sched[FaTarget] >= 1))
  /\ [][\A w \in FaWorkers :
         /\ fa_by'[w] # fa_by[w] =>
              fa_old'[w] = 1 /\ tin'[FaTarget].val = 0 /\ fa_by'[w] = fa_by[w] + 1
         /\ (fa_decs'[w] # fa_decs[w] /\ fa_old'[w] = 1) => fa_by'[w] = fa_by[w] + 1]_vars

\* the count returned to zero twice, and the target was scheduled twice
C2_Witness == FaAllDone /\ sched[FaTarget] = 2 /\ fa_zero = 2

\* ---- the dyntree out-set

WalkDone ==
  /\ o_fin = "returned"
  /\ \A j \in Walkers : o_wk[j].pc \in {"unborn", "done"}

Inserted(s) == s \in PreSuccessors \/ o_ins[s].res = insert_success

\* C7: once finish (notify_outset_nodes) has returned on a dyntree out-set,
\* every insert that starts afterwards returns insert_fail, whatever part of
\* the walk is still left to the tasks.
C7_LateInsertFails ==
  \A w \in Inserters :
    o_ins[w].late /\ o_ins[w].pc = "done" => o_ins[w].res = insert_fail

\* an insert that started after finish returned has failed while a task
\* still has nodes of the tree to mark
C7_Witness ==
  \E w \in Inserters :
    /\ o_ins[w].late
    /\ o_ins[w].res = insert_fail
    /\ \E j \in Walkers : j # 0 /\ o_wk[j].todo # <<>>

\* C8: whatever the interleaving of the inserts with the walk and its tasks,
\* the walk decrements a successor at most once, never one whose insert has
\* not succeeded, and when the walk is over it has decremented exactly once
\* every successor whose insert succeeded. The walk never meets a slot that
\* is already finished.
C8_WalkNotifiesOnce ==
  /\ \A s \in PreSuccessors \cup Inserters :
        /\ o_dec[s] <= 1
        /\ ~Inserted(s) => o_dec[s] = 0
        /\ WalkDone /\ Inserted(s) => o_dec[s] = 1
  /\ \A j \in Walkers :
        o_wk[j].pc = "load" => ~IsFinishedTag(o_tree[o_wk[j].cur][o_wk[j].i].tag)

\* the walk was split between tasks and is over; a concurrent insert
\* succeeded and its successor was decremented
C8_Witness ==
  /\ WalkDone
  /\ \E j, j2 \in Walkers : j # j2 /\ j # 0 /\ j2 # 0
                            /\ o_wk[j].pc = "done" /\ o_wk[j2].pc = "done"
  /\ \E w \in Inserters : o_ins[w].res = insert_success /\ o_dec[w] = 1

InDisciplined == ~i_undisc

InAllEnded == \A w \in InWorkers : i_w[w].pc = "end"

\* C10: conservation for the dyntree in-counter. When the threads increment
\* and decrement one dyntree_incounter concurrently from zero, each thread
\* decrementing only after its own matching increment, no increment is lost:
\* every decrement finds the counter non-zero (no thread stops on the
\* assertion current != nullptr), and when every thread has matched its
\* increments the counter is activated (in == nullptr) and a decrement has
\* returned activated if any increment was made.
C10_Conservation ==
  InDisciplined =>
    /\ \A w \in InWorkers : i_w[w].pc # "crashed"
    /\ InAllEnded =>
          /\ i_in = NullPtr
          /\ (\E w \in InWorkers : i_w[w].nincs > 0) => i_act >= 1

\* the sum of f over the threads 1..n
RECURSIVE InSum(_, _)
InSum(f, n) == IF n = 0 THEN 0 ELSE f[n] + InSum(f, n - 1)

InIncrementing(w) == i_w[w].pc \in {"i_test", "i_store", "i_current", "i_pick", "i_cas"}
InDecrementing(w) ==
  i_w[w].pc \in {"d_read", "d_isleaf", "d_detach", "d_rollback", "d_clear_in",
                 "d_clear_branch", "d_pick", "d_add_to_out"}

\* increment calls that have returned
InCompletedIncs ==
  InSum([w \in InWorkers |-> i_w[w].nincs - (IF InIncrementing(w) THEN 1 ELSE 0)],
        NbInWorkers)

\* decrement calls made (by disciplined threads), returned or not
InCalledDecs == InSum([w \in InWorkers |-> i_w[w].nincs - i_w[w].unm], NbInWorkers)

\* decrement calls that have returned
InCompletedDecs ==
  InSum([w \in InWorkers |->
           i_w[w].nincs - i_w[w].unm - (IF InDecrementing(w) THEN 1 ELSE 0)],
        NbInWorkers)

\* C11: a decrement returns activated only when it detached the last leaf:
\* at the step where a decrement of disciplined threads takes the result
\* activated (it clears in), every increment that has returned is matched by
\* a decrement that was called, this one included; and a decrement that
\* detaches a leaf below the root takes the result not_activated.
C11_ActivatedOnlyAtZero ==
  [][\A w \in InWorkers :
       /\ (InDisciplined' /\ i_w[w].ret # activated /\ i_w'[w].ret = activated)
            => InCompletedIncs' <= InCalledDecs'
       /\ (i_w[w].pc = "d_clear_branch" /\ i_w'[w].pc # "d_clear_branch")
            => i_w'[w].ret = not_activated]_vars

\* the nodes reachable from node nd through untagged child pointers, nd included
RECURSIVE InTreeSize(_, _)
InTreeSize(ch, nd) ==
  IF nd = NullPtr THEN 0
  ELSE 1 + InSum([k \in 1..branching_factor |->
                    IF ch[nd][k - 1].m THEN 0 ELSE InTreeSize(ch, ch[nd][k - 1].p)],
                 branching_factor)

InQuiescent == \A w \in InWorkers : i_w[w].pc \in {"top", "end"}

\* C12: in every quiescent state of the in-counter used by disciplined
\* threads, in == nullptr exactly when as many decrements as increments have
\* completed, and the number of nodes reachable from in through untagged child
\* pointers is the number of increments minus the number of decrements.
C12_QuiescentCount ==
  InDisciplined /\ InQuiescent =>
    /\ (i_in = NullPtr) <=> (InCompletedIncs = InCompletedDecs)
    /\ InTreeSize(i_ch, i_in) = InCompletedIncs - InCompletedDecs

\* C13: an increment completes without any step of another thread: whenever
\* a thread runs alone while it is in increment, it eventually leaves
\* increment.
C13_IncrementAloneReturns ==
  \A w \in InWorkers :
    (i_solo = w /\ InIncrementing(w)) ~> ~InIncrementing(w)

\* finish is over on the dyntree out-set: notify_outset_nodes has returned
\* and, if it left nodes to the tasks, their exit block has run
DynFinishOver == o_fin = "returned" /\ (o_wk[1].pc = "unborn" \/ o_parx)

\* C14: an out-set on which enable_future was called is never deleted by its
\* own finish, simple or dyntree: after finish it still exists, finished, and
\* rejects insertions until deallocate_future deletes it; an out-set that is
\* not a future is deleted exactly once, by its finish, after every
\* notification of the walk has been made.
C14_FutureOutlivesFinish ==
  /\ [][/\ (alive /\ ~alive') =>
            IF sda THEN fin_pc = "walk" /\ fin_todo = <<>> /\ fin_pc' = "done"
                   ELSE fin_pc' = fin_pc /\ fin_todo' = fin_todo
        /\ (o_dels' # o_dels) =>
            /\ o_dels = 0 /\ o_dels' = 1
            /\ IF o_sda THEN WalkDone' /\ DynFinishOver' /\ ~DynFinishOver
                        ELSE o_fin' = o_fin /\ o_wk' = o_wk /\ o_parx' = o_parx]_vars
  /\ [](fin_pc = "done" /\ ~sda /\ alive => head = FinishedHead)
  /\ [](fin_pc = "done" /\ sda => ~alive)
  /\ [](o_fin # "off" /\ o_sda /\ DynFinishOver => o_dels = 1)
  /\ [](o_fin # "off" /\ ~o_sda /\ DynFinishOver /\ o_dels = 0 =>
          \A i \in Slots : IsFinishedTag(o_tree[0][i].tag))

\* C15: whenever the deallocation walk of a dyntree out-set loads a slot of a
\* node of the tree, the slot carries a finished tag, so the assert(false) of
\* deallocate_outset_tree_partial is never reached; in particular when the
\* consumer woken by the notify walk calls deallocate_future while the rest
\* of the walk is with a task.
C15_DeallocSeesFinished ==
  \A j \in Walkers :
    o_fw[j].pc = "load" => IsFinishedTag(o_tree[o_fw[j].cur][o_fw[j].i].tag)

\* what parallel_for(pf_lo, pf_hi, body, k) has to have done: the body applied
\* once to every index of the range and to no other
PfAllOnce == [i \in PfIndices |-> IF pf_lo <= i /\ i < pf_hi THEN 1 ELSE 0]

InPortActivated == {t \in PortTasks : ip_task[t].ret = activated}
\* every task that got a port has run its decrement to the end
InPortAllDecremented ==
  /\ ip_task[0].st # "unborn"
  /\ \A t \in PortTasks : ip_task[t].st \in {"unborn", "done"}

\* C17: after the first increment() and any number of forks increment(port),
\* with every leaf port decremented once, in any interleaving, exactly one
\* decrement returns activated, the one that reaches the node without parent;
\* all the others return not_activated. No decrement touches a deleted node.
C17_ExactlyOneActivated ==
  /\ Cardinality(InPortActivated) <= 1
  /\ InPortActivated # {} <=> ip_nodes[0].st = "freed"
  /\ InPortAllDecremented =>
       /\ Cardinality(InPortActivated) = 1
       /\ \A t \in PortTasks :
            ip_task[t].st = "done" /\ t \notin InPortActivated
              => ip_task[t].ret = not_activated
  /\ ~ip_err

\* every task was forked and has decremented its port, and the decrement
\* that activated is not the one of the last task
C17_Witness ==
  /\ \A t \in PortTasks : ip_task[t].st = "done"
  /\ ip_task[MaxForks].ret = not_activated
  /\ InPortActivated # {}

\* the ports that tasks hold
HeldInPorts == {ip_task[t].port : t \in {t3 \in PortTasks : ip_task[t3].st = "running"}}

\* C18: a fork of an in-port, increment(port) with port != nullptr under
\* fork_in_ports_for, gives two new ports, distinct, whose parent is the old
\* port; the entry of the parent task becomes the first and the entry of the
\* child the second; no task holds the old port any more, and there is one
\* more outstanding port than before.
C18_ForkReplacesPort ==
  [][\A t2 \in PortTasks \ {0} :
       ip_task[t2].st = "unborn" /\ ip_task'[t2].st = "running" =>
         \E t \in PortTasks \ {t2} :
           LET o == ip_task[t].port
               a == ip_task'[t].port
               b == ip_task'[t2].port
           IN /\ ip_task[t].st = "running" /\ ip_task'[t].st = "running"
              /\ a # o /\ b # o /\ a # b
              /\ ip_nodes[a].st = "unborn" /\ ip_nodes[b].st = "unborn"
              /\ ip_nodes'[a] = [st |-> "live", parent |-> o, nb |-> 0]
              /\ ip_nodes'[b] = [st |-> "live", parent |-> o, nb |-> 0]
              /\ ip_nodes'[o] = ip_nodes[o]
              /\ o \notin HeldInPorts'
              /\ Cardinality(HeldInPorts') = Cardinality(HeldInPorts) + 1]_vars

\* a port that came from a fork was forked in its turn, and both tasks hold
\* the new ports
C18_Witness ==
  \E t, t2 \in PortTasks :
    /\ t # t2
    /\ ip_task[t].st = "running" /\ ip_task[t2].st = "running"
    /\ ip_task[t].port # ip_task[t2].port
    /\ ip_nodes[ip_task[t].port].parent = ip_nodes[ip_task[t2].port].parent
    /\ ip_nodes[ip_task[t].port].parent # NullPtr
    /\ ip_nodes[ip_nodes[ip_task[t].port].parent].parent # NullPtr

\* the keys that the claim gives to the child for a mode, from the keys that
\* the parent and the child had at the call
PortKeysFor(mode, parent_keys, child_keys) ==
  CASE mode = port_passing_default -> parent_keys
    [] mode = port_passing_intersection -> parent_keys \cap child_keys
    [] mode = port_passing_difference -> parent_keys \ child_keys

\* C19 as stated: after propagate_ports_for(parent, child) the keys of each
\* map of the child are, in default mode, all the keys of the parent; in
\* intersection mode, the keys of the parent that the child had; in
\* difference mode, the keys of the parent that the child did not have.
C19_Original ==
  pm_pre # <<>> =>
    /\ DOMAIN pm_child.in =
         PortKeysFor(pm_mode.in, DOMAIN pm_pre.parent.in, DOMAIN pm_pre.child.in)
    /\ DOMAIN pm_child.out =
         PortKeysFor(pm_mode.out, DOMAIN pm_pre.parent.out, DOMAIN pm_pre.child.out)

\* the out-sets whose walk had frozen a slot of the parent's port at the call
FrozenAtCall == {k \in PortKeys : pm_pre.frozen[k] >= 1}

\* C19, amended: the keys of inports are as stated; the keys of outports are
\* as stated less the out-sets on which fork2 failed because the finished
\* walk had frozen the port, and these are erased from the parent's map too.
C19_KeysLessFrozen ==
  pm_pre # <<>> =>
    LET outs == PortKeysFor(pm_mode.out, DOMAIN pm_pre.parent.out,
                            DOMAIN pm_pre.child.out)
    IN /\ DOMAIN pm_child.in =
            PortKeysFor(pm_mode.in, DOMAIN pm_pre.parent.in, DOMAIN pm_pre.child.in)
       /\ DOMAIN pm_parent.in = DOMAIN pm_pre.parent.in
       /\ DOMAIN pm_child.out = outs \ FrozenAtCall
       /\ DOMAIN pm_parent.out = DOMAIN pm_pre.parent.out \ (outs \cap FrozenAtCall)

\* the call was made in difference mode for the in-ports and in intersection
\* mode for the out-ports, and an out-set that both held was being finished
C19_Witness ==
  /\ pm_pre # <<>>
  /\ pm_mode = [in |-> port_passing_difference, out |-> port_passing_intersection]
  /\ DOMAIN pm_child.in # {}
  /\ DOMAIN pm_child.out # {}
  /\ \E k \in DOMAIN pm_pre.parent.out \cap DOMAIN pm_pre.child.out :
       k \in FrozenAtCall /\ k \notin DOMAIN pm_child.out

\* the finished walk is over: finished() has returned and no task of the walk
\* is left
OutWalkOver ==
  /\ op_fin = "returned"
  /\ \A j \in OutWalkers : op_wk[j].pc \in {"unborn", "done"}

\* C20: whatever the interleaving of the inserts, and of the forks of the
\* ports, with the finished walk: the walk notifies at most once a target
\* whose insert returned insert_success, and exactly once when it is over; an
\* insert returns insert_fail only after the walk froze children[0] of the
\* root (which is_finished() reads, and which is frozen before any port), and
\* its target is never notified by the walk.
C20_InsertedNotifiedOnce ==
  /\ \A t \in OutTasks :
       /\ op_notified[t] <= 1
       /\ op_task[t].res # insert_success => op_notified[t] = 0
       /\ op_task[t].res = insert_success /\ OutWalkOver => op_notified[t] = 1
       /\ op_task[t].res = insert_fail => op_nodes[OutRootPort].c[0].frozen
       /\ op_task[t].lost => op_nodes[op_task[t].port].c[0].frozen
  /\ ~op_err

\* the walk went through a split and is over; it notified a task whose insert
\* succeeded, and the insert of another task lost its compare-exchange
C20_Witness ==
  /\ OutWalkOver
  /\ op_wk[2].pc = "done"
  /\ \E t, t2 \in OutTasks :
       /\ op_task[t].res = insert_success /\ op_notified[t] = 1
       /\ op_task[t2].lost

\* the times task t was handed to the scheduler for its block k: by add_node in
\* its force, and by the walk, whose decrement_incounter on the unary in-counter
\* that force installed is schedule(n)
ForceScheduled(t) == op_added[t] + op_notified[t]

\* C21: a node that calls force is handed to the scheduler exactly once: by
\* add_node inside force when the out-set is finished or the insertion fails
\* (and then never by the walk), otherwise by the finished walk (and then never
\* by force); never by both, and never by neither: the walk comes to its end
\* with every task that forced scheduled once.
C21_ForceSchedulesOnce ==
  /\ [](\A t \in OutTasks :
          /\ ForceScheduled(t) <= 1
          /\ op_task[t].res = insert_fail => op_added[t] = 1 /\ op_notified[t] = 0
          /\ op_task[t].res = insert_success => op_added[t] = 0
          /\ op_task[t].st # "done" => ForceScheduled(t) = 0
          /\ op_task[t].st = "done" /\ OutWalkOver => ForceScheduled(t) = 1)
  /\ <>(OutWalkOver /\ \A t \in OutTasks : op_task[t].st \in {"unborn", "done"})

\* one force inserted its node and was scheduled by the walk, another found the
\* out-set finished and was scheduled by its own add_node
C21_Witness ==
  \E t, t2 \in OutTasks :
    /\ op_task[t].res = insert_success /\ op_notified[t] = 1 /\ op_added[t] = 0
    /\ op_task[t2].res = insert_fail /\ op_added[t2] = 1 /\ op_notified[t2] = 0

\* no operation of the in-counter is in progress
SnziQuiet == \A t \in SnziThreads : sz_th[t].op = "idle"

\* every arrive that returned has been matched by a depart
SnziBalanced == \A l \in SnziLeaves : sz_tok[l] = 0

\* C22: with every depart after its matching arrive, a decrement of the
\* distributed in-counter returns activated exactly when its depart took the
\* root from one to zero; the root is nonzero as long as an arrive that returned
\* is not matched by a depart; no depart meets a counter below one and no
\* undoing depart makes the root zero; and once arrives and departs are equal in
\* number and none is in progress, is_activated() is true.
C22_ActivatedAtZero ==
  /\ ~sz_err
  /\ \A t \in SnziThreads :
       sz_th[t].ret # "none" => (sz_th[t].ret = activated <=> sz_th[t].zeroed)
  /\ ~SnziBalanced => is_nonzero
  /\ SnziQuiet /\ SnziBalanced => is_activated /\ \A n \in SnziNodes : sz_x[n].c = 0

\* two threads arrived at the same leaf and departed from it, and the
\* decrement that departed last returned activated
C22_Witness ==
  /\ SnziQuiet /\ SnziBalanced
  /\ \E t, t2 \in SnziThreads :
       /\ sz_th[t].leaf = sz_th[t2].leaf
       /\ sz_th[t].ret = activated /\ sz_th[t].zeroed
       /\ sz_th[t2].ret = not_activated

\* C23: each run() sets current_block_id to the continuation_block_id that was
\* stored and executes body once; continuation_block_id is then uninitialized
\* unless the body transferred, in which case it is the target; the first run
\* of a node is at the entry block; a run with continuation_block_id
\* uninitialized, that is a run after a block that did not transfer, fails the
\* assertion (and no run with a block stored does).
C23_RunTakesContinuation ==
  [][LET a == d_nodes[TheNode]
         b == d_nodes'[TheNode]
     IN b.nrun = a.nrun + 1 =>
          /\ b.cur = a.cont
          /\ a.nrun = 0 => b.cur = entry_block_id
          /\ d_err' = (a.cont = uninitialized_block_id)
          /\ a.cont # uninitialized_block_id =>
                /\ d_ctr'.pool = d_ctr.pool + 1
                /\ b.cont = d_prog.tr[a.cont]
          /\ a.cont = uninitialized_block_id => d_ctr' = d_ctr]_vars

\* the node ran block 0, which jumped to block 2, ran block 2, which returned,
\* and was run again: the assertion failed
C23_Witness ==
  /\ d_prog.name = "cnt"
  /\ d_nodes[TheNode].nrun = 3
  /\ d_ctr.pool = 2
  /\ d_prog.tr[0] = 2
  /\ d_err

\* the tree nodes that the teardown task j still holds: its deque and the node
\* it is at
TeardownHolds(j) ==
  {o_fw[j].todo[q] : q \in 1..Len(o_fw[j].todo)}
    \cup (IF o_fw[j].pc = "load" THEN {o_fw[j].cur} ELSE {})

\* the teardown of the out-set is over: the destructor has returned and no
\* task of the walk is left
TeardownOver ==
  /\ o_dels >= 1
  /\ \A j \in Walkers : o_fw[j].pc \in {"unborn", "done"}

\* C24: the teardown of the dyntree out-set frees at most communication_delay
\* tree nodes per activation; no tree node is in two deques, twice in one, or
\* still held after it was freed, and none is freed twice; the out-set is torn
\* down once; no task of the teardown stops on its assertion; and when the
\* deques are empty and the tasks have ended every tree node has been freed.
C24_TeardownFreesOnce ==
  /\ \A j \in Walkers :
       /\ o_fw[j].k <= o_delay
       /\ Cardinality(TeardownHolds(j)) =
            Len(o_fw[j].todo) + (IF o_fw[j].pc = "load" THEN 1 ELSE 0)
       /\ TeardownHolds(j) \cap o_freed = {}
       /\ \A j2 \in Walkers : j2 # j => TeardownHolds(j) \cap TeardownHolds(j2) = {}
  /\ o_err = "none"
  /\ o_dels <= 1
  /\ TeardownOver => o_freed = DOMAIN o_tree

\* C25: a thread of the microbenchmark has issued as many decrements as
\* increments when benchmark_incounter_thread returns, never issues a decrement
\* while none of its increments is unmatched, and when all threads have
\* returned the in-counter is back at zero.
C25_BalancedThreads ==
  /\ \A t \in BenchThreads :
       /\ b_th[t].pc = "done" => b_th[t].decs = b_th[t].incs
       /\ ~b_th[t].bad
  /\ (\A t \in BenchThreads : b_th[t].pc = "done") => b_counter = 0

\* C26: a decrement of simple_incounter_wrapper returns true exactly when it
\* takes the count from 1 to 0.
C26_ActivatedAtOneToZero ==
  \A t \in BenchThreads :
    b_th[t].decs > 0 => (b_th[t].ret <=> b_th[t].old = 1)

\* the producer's last block has returned
ProducerDone == TheProducer \in DOMAIN d_nodes /\ d_nodes[TheProducer].dead

\* the reader's force inserted it into the future out-set
ReaderInserted(j) ==
  /\ EdgeForce(j) \in DOMAIN d_nodes
  /\ d_nodes[EdgeForce(j)].ins = insert_success

\* in the microbenchmark no node ever finishes the future out-set
EdgeFutureNeverFinished == ~InsertSeesFinished(d_fut.head) /\ d_fut.todo = <<>>

\* C27: in the edge-throughput microbenchmark, when the last block of the
\* future producer, which detached and was resumed by a loop node through
\* call, has returned, the future out-set it held when it detached is
\* finished, and once the walk of finish is over every reader that inserted
\* itself by force has been scheduled by it.
C27_DetachedProducerFinishes ==
  ProducerDone =>
    /\ InsertSeesFinished(d_fut.head)
    /\ d_fut.todo = <<>> =>
         \A j \in 0..(MaxEdgeForces - 1) :
           ReaderInserted(j) => d_nodes[EdgeForce(j)].kby = "finish"

\* the node that future(producer, ...) prepared with the future out-set
FutureOwner == IF d_prog.name = "et" THEN TheProducer ELSE FutureBody

\* C28: over the programs of the combinators, finish is called on the future
\* out-set at most once, by the worker that ends the final block of the node
\* that holds it as out-strategy, and no other node holds it; the out-strategy
\* that a node holds is notified at most once, at the node's final block and at
\* no block that transfers control.
C28_FinishOncePerOutset ==
  /\ d_fut.nfin <= 1
  /\ d_fut.nfin = 1 => FutureOwner \in DOMAIN d_nodes /\ d_nodes[FutureOwner].dead
  /\ \A n \in DOMAIN d_nodes \ {Main} :
       LET x == d_nodes[n] IN
       /\ (x.out.tag = OBJECT_OUT \/ x.wout.tag = OBJECT_OUT) => n = FutureOwner
       /\ x.notif <= 1
       /\ x.notif = 1 => x.dead
       /\ ~x.early

\* future_pool: the future body's final block returned, finish was called on
\* the future out-set and its walk has scheduled a reader
C28_Witness ==
  /\ d_prog.name = "fp"
  /\ d_fut.nfin = 1
  /\ d_fut.todo = <<>>
  /\ d_nodes[FutureBody].dead
  /\ \E r \in Readers : d_nodes[r].kby = "finish"

\* the block that node n runs next calls async
AsyncBlock(n) ==
  /\ n[1] \in {"abr", "epr"}
  /\ \/ d_nodes[n].cont = 0 /\ n[3] - n[2] >= 2
     \/ d_nodes[n].cont = 1

\* the producer that the block creates
AsyncProducer(n) ==
  IF d_nodes[n].cont = 0 THEN <<n[1], n[2], Mid(n[2], n[3])>>
  ELSE <<n[1], Mid(n[2], n[3]), n[3]>>

\* the unfinished nodes whose out-strategy is the unary one that points at c
UnaryProducers(c) ==
  {p \in DOMAIN d_nodes : ~d_nodes[p].dead /\ d_nodes[p].out = [tag |-> UNARY_OUT, p |-> c]}

\* C29: a block that calls async(producer, consumer, k) leaves the new producer
\* with the ready in-strategy and the unary out-strategy that points at
\* consumer, scheduled once; consumer's in-counter is one higher; the caller is
\* scheduled for block k with the out-strategy it had; no other node changes.
\* The increment is in place before the producer can run: a fetch-add
\* in-counter is never below the number of unfinished producers that point at
\* its node.
C29_AsyncFrame ==
  /\ [][\A n \in DOMAIN d_nodes :
         (AsyncBlock(n) /\ d_nodes'[n].nrun = d_nodes[n].nrun + 1) =>
           LET p == AsyncProducer(n)
               c == d_nodes[n].arg
               k == d_nodes[n].cont + 1
           IN /\ p \notin DOMAIN d_nodes
              /\ p \in DOMAIN d_nodes'
              /\ d_nodes'[p].in = incounter_ready
              /\ d_nodes'[p].out = [tag |-> UNARY_OUT, p |-> c]
              /\ d_nodes'[p].sreq = 1
              /\ d_nodes'[p].nrun = 0
              /\ d_nodes[c].in.tag = FETCH_ADD_TAG
              /\ d_nodes'[c] = [d_nodes[c] EXCEPT !.in.val = @ + 1]
              /\ d_nodes'[n].cont = k
              /\ d_nodes'[n].ks = 1
              /\ d_nodes'[n].sreq = d_nodes[n].sreq
              /\ d_nodes'[n].out = d_nodes[n].out
              /\ d_nodes'[n].in = incounter_ready
              /\ ~d_nodes'[n].dead
              /\ d_nodes'[n].notif = d_nodes[n].notif
              /\ \A m \in DOMAIN d_nodes \ {n, c} : d_nodes'[m] = d_nodes[m]
              /\ DOMAIN d_nodes' = DOMAIN d_nodes \cup {p}
              /\ d_fut' = d_fut
              /\ d_err' = d_err]_vars
  /\ [](\A c \in DOMAIN d_nodes :
         d_nodes[c].in.tag = FETCH_ADD_TAG =>
           d_nodes[c].in.val >= Cardinality(UnaryProducers(c)))

\* an async_bintree_rec node has made both of its async calls and its second
\* producer is in the pool
C29_Witness ==
  \E n \in AbrNodes :
    /\ d_nodes[n].cont = 2
    /\ n[3] - n[2] >= 2
    /\ <<"abr", Mid(n[2], n[3]), n[3]>> \in DOMAIN d_nodes
    /\ d_nodes[<<"abr", Mid(n[2], n[3]), n[3]>>].sreq = 1

\* the increments applied to target t by the add_edge calls, and the
\* decrements delivered to it by add_edge's undo and by finish's walk
IncsApplied(t) == Cardinality({w \in EdgeWorkers : ae_tgt[w] = t /\ ae_incs[w] >= 1})
DecsDelivered(t) ==
  Cardinality({w \in EdgeWorkers : ae_tgt[w] = t /\ ae_decSelf[w] >= 1})
  + Cardinality({w \in EdgeWorkers : ae_tgt[w] = t /\ ae_decFin[w] >= 1})

\* the cells that are linked in the out-set or held by finish's walk
LinkedCells == {head.list[i] : i \in DOMAIN head.list}
               \cup {fin_todo[i] : i \in DOMAIN fin_todo}

\* C30: add_edge increments before it inserts: a cell that finish can reach
\* belongs to an edge whose increment is applied; the decrements delivered to
\* a target never exceed the increments applied to it; a fetch-add count is
\* their difference and never below zero; and a decrement schedules a
\* fetch-add target only when it takes the count to zero.
C30_IncrementBeforeInsert ==
  /\ [](/\ \A c \in LinkedCells : ae_incs[c.id] = 1
        /\ \A t \in Targets :
             /\ DecsDelivered(t) <= IncsApplied(t)
             /\ sched[t] <= DecsDelivered(t)
             /\ tin[t].tag = FETCH_ADD_TAG =>
                  /\ tin[t].val = IncsApplied(t) - DecsDelivered(t)
                  /\ tin[t].val >= 0)
  /\ [][\A t \in Targets :
         (sched'[t] > sched[t] /\ tin[t].tag = FETCH_ADD_TAG) => tin'[t].val = 0]_vars

\* two edges to one fetch-add target: finish's walk decremented for the one
\* that was inserted, add_edge undid the other, and the target was scheduled
\* by the decrement that reached zero
C30_Witness ==
  \E w1, w2 \in EdgeWorkers :
    /\ w1 # w2
    /\ ae_tgt[w1] = ae_tgt[w2]
    /\ tin[ae_tgt[w1]] = [tag |-> FETCH_ADD_TAG, val |-> 0]
    /\ ae_decFin[w1] = 1
    /\ ae_decSelf[w2] = 1
    /\ sched[ae_tgt[w1]] = 1

\* the inserts whose cell is in the sequence of cells l
CellIds(l) == {l[i].id : i \in DOMAIN l}
NoCellTwice(l) == \A i, j \in DOMAIN l : l[i].id = l[j].id => i = j

\* C31: finish swings head once, by its compare-exchange; the inserts whose
\* cell it captured are exactly those that returned insert_success, each cell
\* once; each captured node is decremented by the walk exactly once; an insert
\* that returned insert_fail is in no list and is not decremented by the walk.
C31_CapturedExactlySuccesses ==
  /\ [][(head' = FinishedHead /\ head # FinishedHead) =>
          (fin_pc = "cas" /\ fin_pc' = "walk" /\ fin_todo' = head.list)]_vars
  /\ [](/\ NoCellTwice(head.list)
        /\ NoCellTwice(fin_todo)
        /\ \A w \in EdgeWorkers :
             LET linked == w \in CellIds(head.list)
                 held == w \in CellIds(fin_todo)
             IN /\ ae_decFin[w] <= 1
                /\ ae_res[w] = insert_success <=> (linked \/ held \/ ae_decFin[w] = 1)
                /\ ~(linked /\ held)
                /\ (linked \/ held) => ae_decFin[w] = 0
                /\ ae_res[w] = insert_fail =>
                     ~linked /\ ~held /\ ae_decFin[w] = 0
                /\ (ae_res[w] = insert_success /\ fin_pc \in {"walk", "done"}) => ~linked
                /\ (ae_res[w] = insert_success /\ fin_pc = "done") => ae_decFin[w] = 1)

\* finish captured two cells; its walk has decremented for one and holds the
\* other
C31_Witness ==
  /\ fin_pc = "walk"
  /\ Len(fin_todo) = 1
  /\ \E w \in EdgeWorkers : ae_decFin[w] = 1
  /\ \A w \in EdgeWorkers : ae_res[w] = insert_success

\* the slots of its leaf that thread w holds with the minus tag inside
\* try_to_detatch
DetachHeld(w) ==
  CASE i_w[w].pc = "d_detach" -> 0..(i_w[w].k - 1)
    [] i_w[w].pc = "d_rollback" -> 0..i_w[w].k
    [] i_w[w].pc \in {"d_clear_in", "d_clear_branch"} -> Slots
    [] OTHER -> {}

IsChild(v) == v.p # NullPtr /\ ~v.m

\* C32: try_to_detatch is all or nothing.  The slots it has set are minus()
\* until it resets them; when it returns true every slot of the leaf is
\* minus(); a turn of its loops changes the one slot it is at, from null to
\* minus() by the compare-exchange and from minus() to null by the rollback,
\* and when it returns false it has reset every slot it had set; a child
\* that an increment installed changes only by the store of the decrement
\* that detached that child.
C32_DetachAllOrNothing ==
  /\ [](\A w \in InWorkers : \A j \in DetachHeld(w) : i_ch[i_w[w].tgt][j] = minus)
  /\ [](\A w, v \in InWorkers :
          (w # v /\ DetachHeld(w) # {} /\ DetachHeld(v) # {}) => i_w[w].tgt # i_w[v].tgt)
  /\ [][\A w \in InWorkers :
         (i_w[w].pc \in {"d_detach", "d_rollback"} /\ i_w'[w] # i_w[w]) =>
           LET x == i_w[w] IN
           /\ \A n \in DOMAIN i_ch : \A j \in Slots :
                (n # x.tgt \/ j # x.k) => i_ch'[n][j] = i_ch[n][j]
           /\ i_ch'[x.tgt][x.k] # i_ch[x.tgt][x.k] =>
                IF x.pc = "d_detach"
                  THEN i_ch[x.tgt][x.k] = NullChild /\ i_ch'[x.tgt][x.k] = minus
                  ELSE i_ch[x.tgt][x.k] = minus /\ i_ch'[x.tgt][x.k] = NullChild
           /\ x.pc = "d_rollback" => i_ch'[x.tgt][x.k] = NullChild
           /\ i_w'[w].pc \notin {"d_detach", "d_rollback", "d_clear_in", "d_clear_branch"} =>
                /\ x.pc = "d_detach" => x.k = 0 /\ i_ch' = i_ch
                /\ x.pc = "d_rollback" => x.k = 0]_vars
  /\ [][\A n \in DOMAIN i_ch : \A j \in Slots :
         (IsChild(i_ch[n][j]) /\ i_ch'[n][j] # i_ch[n][j]) =>
           \E w \in InWorkers :
             /\ i_w[w].pc = "d_clear_branch"
             /\ i_w[w].cur = n /\ i_w[w].i = j /\ i_w[w].tgt = i_ch[n][j].p
             /\ i_ch'[n][j] = NullChild]_vars

\* a thread in try_to_detatch set slot 0 of its leaf, found in slot 1 the
\* child that a concurrent increment installed, and is about to reset slot 0
C32_Witness ==
  \E w \in InWorkers :
    /\ i_w[w].pc = "d_rollback"
    /\ i_w[w].k = 0
    /\ i_ch[i_w[w].tgt][0] = minus
    /\ IsChild(i_ch[i_w[w].tgt][1])

\* the nodes of the out-tree: those reachable from out
RECURSIVE OutBelow(_, _)
OutBelow(ch, nd) ==
  {nd} \cup UNION {IF ch[nd][j].p = NullPtr THEN {} ELSE OutBelow(ch, ch[nd][j].p)
                   : j \in Slots}
OutNodes == OutBelow(i_ch, OutRoot)

\* the slots, anywhere, that hold a pointer to node n
LinksTo(n) == {s \in (DOMAIN i_ch) \X Slots : i_ch[s[1]][s[2]].p = n}

\* node n was detached and its decrement has not yet called add_to_out
AwaitsOut(n) ==
  \E w \in InWorkers :
    i_w[w].tgt = n /\ i_w[w].pc \in {"d_clear_in", "d_clear_branch", "d_add_to_out"}

\* every slot of node n carries the minus tag
Detached(n) == \A j \in Slots : i_ch[n][j].m

\* C33: a node that try_to_detatch took from the in-tree is linked into the
\* out-tree exactly once, by the add_to_out of its decrement, and the in-tree
\* does not point at it any more; every slot of every node of the out-tree
\* carries the minus tag; the slots of the out-tree change only by add_to_out,
\* which links a node with the minus tag where the pointer was null; no thread
\* is detaching a node of the out-tree, and a descent that loads a slot of a
\* node of the out-tree breaks to its outer loop.
C33_OutTreeIsSealed ==
  /\ [](/\ \A n \in OutNodes : Detached(n)
        /\ i_in \notin OutNodes
        /\ \A n \in DOMAIN i_ch \ {OutRoot} :
             /\ Cardinality(LinksTo(n)) <= 1
             /\ n \in OutNodes => ~AwaitsOut(n)
             /\ (Detached(n) /\ ~AwaitsOut(n)) =>
                  /\ n \in OutNodes
                  /\ \A s \in LinksTo(n) : s[1] \in OutNodes /\ i_ch[s[1]][s[2]].m
        /\ \A w \in InWorkers :
             i_w[w].pc \in {"d_detach", "d_rollback"} /\ DetachHeld(w) # {} =>
               i_w[w].tgt \notin OutNodes)
  /\ [][\A n \in OutNodes : \A j \in Slots :
         i_ch'[n][j] # i_ch[n][j] =>
           /\ i_ch[n][j] = minus
           /\ \E w \in InWorkers :
                /\ i_w[w].pc = "d_add_to_out"
                /\ i_w'[w].pc = "top"
                /\ i_ch'[n][j] = MinusPtr(i_w[w].tgt)]_vars
  /\ [][\A w \in InWorkers :
         (/\ i_w[w].pc \in {"i_pick", "d_pick"}
          /\ i_w[w].cur \in OutNodes
          /\ i_w'[w] # i_w[w]) =>
           i_w'[w].cur = NullPtr /\ i_w'[w].pc \in {"i_test", "d_read"}]_vars

\* two nodes were detached and the second one was linked below the first
C33_Witness ==
  \E n \in OutNodes \ {OutRoot} : \E j \in Slots :
    /\ i_ch[n][j].p # NullPtr
    /\ \A w \in InWorkers : i_w[w].pc = "top"


\* ---- C34

\* no slot of the out-set's tree carries a finished tag
NoSlotFinished ==
  \A n \in DOMAIN o_tree : \A i \in Slots : ~IsFinishedTag(o_tree[n][i].tag)

\* how many leaf slots below slot i .. of tree node n hold successor s
RECURSIVE LeafCount(_, _, _)
LeafCount(n, i, s) ==
  IF i = branching_factor THEN 0
  ELSE LET c == o_tree[n][i] IN
       (CASE c.tag = leaf -> (IF c.p = s THEN 1 ELSE 0)
          [] c.tag = interior -> LeafCount(c.p, 0, s)
          [] OTHER -> 0)
       + LeafCount(n, i + 1, s)

\* the tree nodes that the root reaches
RECURSIVE NodesBelow(_)
NodesBelow(n) ==
  {n} \cup UNION {NodesBelow(o_tree[n][i].p) :
                    i \in {k \in Slots : o_tree[n][k].tag \in {interior, finished_interior}}}

\* the successors whose insert returned insert_success
InsertedOk ==
  PreSuccessors \cup {w \in Inserters : o_ins[w].res = insert_success}

\* w is at the compare-exchange of a branch of insert and the step is its
InsertCas(w) ==
  /\ o_ins[w].pc \in {"cas_empty", "cas_leaf"}
  /\ o_ins'[w] # o_ins[w]

\* C34: while no slot is finished, the leaves that the root reaches are the
\* successors whose insert returned insert_success, each of them once; every
\* node of the tree is reached from the root; a compare-exchange that replaces
\* a leaf installs an interior node that holds the new leaf and the displaced
\* one, and a compare-exchange that fails leaves the tree as it was
C34_LeavesAreSuccesses ==
  /\ [](NoSlotFinished =>
          \A s \in PreSuccessors \cup Inserters :
            LeafCount(0, 0, s) = (IF s \in InsertedOk THEN 1 ELSE 0))
  /\ [](DOMAIN o_tree = NodesBelow(0))
  /\ [][\A w \in Inserters : InsertCas(w) =>
          LET x == o_ins[w] IN
          IF o_ins'[w].res = insert_success
            THEN /\ x.pc = "cas_leaf" =>
                      /\ o_tree'[x.cur][x.i].tag = interior
                      /\ o_tree'[x.cur][x.i].p \notin DOMAIN o_tree
                      /\ \E a, b \in Slots :
                           /\ a # b
                           /\ o_tree'[o_tree'[x.cur][x.i].p][a] = LeafSlot(w)
                           /\ o_tree'[o_tree'[x.cur][x.i].p][b] = x.n
                 /\ x.pc = "cas_empty" => o_tree'[x.cur][x.i] = LeafSlot(w)
                 /\ \A n \in DOMAIN o_tree : \A i \in Slots :
                      <<n, i>> # <<x.cur, x.i>> => o_tree'[n][i] = o_tree[n][i]
            ELSE o_tree' = o_tree]_vars

\* an insert displaced a leaf: its interior node holds its leaf and the
\* displaced leaf of another successor, and no slot is finished
C34_Witness ==
  /\ NoSlotFinished
  /\ \E w \in Inserters :
       /\ o_ins[w].res = insert_success
       /\ w \in DOMAIN o_tree
       /\ \E s \in PreSuccessors : \E a, b \in Slots :
            o_tree[w][a] = LeafSlot(w) /\ o_tree[w][b] = LeafSlot(s)

\* ---- C35

\* walker j is inside the for loop of the partial walk, at slot i of cur
AtSlot(j) == o_wk[j].pc = "load"

\* the tree nodes that the walkers hold: in a todo list, or as current
HeldNodes ==
  UNION {{<<j, k>> : k \in 1..Len(o_wk[j].todo)} : j \in Walkers}
    \cup {<<j, 0>> : j \in {k \in Walkers : AtSlot(k)}}

NodeHeld(h) == IF h[2] = 0 THEN o_wk[h[1]].cur ELSE o_wk[h[1]].todo[h[2]]

\* the step applies make_finished to slot i of node n
Marks(n, i) ==
  \E j \in Walkers : AtSlot(j) /\ o_wk[j].cur = n /\ o_wk[j].i = i /\ o_wk'[j] # o_wk[j]

\* C35: no tree node is held twice by the walkers, a node that waits in a todo
\* list has no finished slot and a node under visit has exactly its slots
\* before the current one finished, so no node is visited twice;
\* make_finished is applied only to slots without a finished tag; and a slot
\* with a finished tag keeps its value
C35_MarkedOnceForGood ==
  /\ [](\A g, h \in HeldNodes : NodeHeld(g) = NodeHeld(h) => g = h)
  /\ [](\A h \in HeldNodes : \A i \in Slots :
          IsFinishedTag(o_tree[NodeHeld(h)][i].tag)
            <=> (h[2] = 0 /\ i < o_wk[h[1]].i))
  /\ [][\A n \in DOMAIN o_tree : \A i \in Slots :
          /\ Marks(n, i) => ~IsFinishedTag(o_tree[n][i].tag)
          /\ IsFinishedTag(o_tree[n][i].tag) => o_tree'[n][i] = o_tree[n][i]]_vars

\* after a split two tasks of the parallel walk hold nodes at once, one of
\* them in the middle of its node, and the root is finished in every slot
C35_Witness ==
  /\ \E j, j2 \in Walkers :
       /\ j # j2 /\ j # 0 /\ j2 # 0
       /\ AtSlot(j) /\ o_wk[j].i > 0
       /\ o_wk[j2].todo # <<>>
  /\ \A i \in Slots : IsFinishedTag(o_tree[0][i].tag)

(***************************************************************************)
(* The dispatch functions on their own: increment_incounter,               *)
(* decrement_incounter and outset_insert called on a target with any       *)
(* in-strategy and a source with any out-strategy. A failed assertion      *)
(* ends the program.                                                       *)
(***************************************************************************)
MaxDispOps == 3
MaxDispCount == 2
DispSource == <<"source", 0, 0>>
DispTarget == <<"target", 0, 0>>

InitDispatch ==
  /\ d_prog = [name |-> "dispatch", n |-> 0]
  /\ \E w \in {incounter_ready, incounter_unary}
               \cup {[incounter_fetch_add EXCEPT !.val = k] : k \in 1..MaxDispCount} :
     \E o \in {outset_noop, outset_unary, outset_new} :
       d_nodes = (DispSource :> [FreshNode EXCEPT !.out = o])
                 @@ (DispTarget :> [FreshNode EXCEPT !.in = w])
  /\ d_fut = [NoFuture EXCEPT !.alive = TRUE]
  /\ d_ctr = [ops |-> 0, op |-> "none"]
  /\ d_err = FALSE
  /\ TinOff
  /\ SimpleOff
  /\ FaOff
  /\ DynOutOff
  /\ DynInOff
  /\ PfOff
  /\ InPortOff
  /\ PortMapOff
  /\ OutPortOff
  /\ SnziOff
  /\ BenchOff
  /\ NodePortsOff

DispCalled(S, op) == [S EXCEPT !.ctr = [ops |-> @.ops + 1, op |-> op]]

\* increment_incounter(source, target)
Disp_Increment ==
  /\ ~d_err
  /\ d_ctr.ops < MaxDispOps
  /\ DagBecomes(DispCalled(increment_incounter_S(DagState, DispTarget), "increment"))
  /\ UNCHANGED d_prog
  /\ UNCHANGED dagOthers

\* decrement_incounter(source, target), a fetch-and-add counter being positive
Disp_Decrement ==
  /\ ~d_err
  /\ d_ctr.ops < MaxDispOps
  /\ d_nodes[DispTarget].in.tag = FETCH_ADD_TAG => d_nodes[DispTarget].in.val > 0
  /\ DagBecomes(DispCalled(decrement_incounter_S(DagState, DispTarget), "decrement"))
  /\ UNCHANGED d_prog
  /\ UNCHANGED dagOthers

\* outset_insert(source, source->out, target)
Disp_Insert ==
  /\ ~d_err
  /\ d_ctr.ops < MaxDispOps
  /\ DagBecomes(DispCalled(outset_insert(DagState, DispSource,
                                         d_nodes[DispSource].out, DispTarget), "insert"))
  /\ UNCHANGED d_prog
  /\ UNCHANGED dagOthers

NextDispatch ==
  \/ Disp_Increment
  \/ Disp_Decrement
  \/ Disp_Insert

SpecDispatch == InitDispatch /\ [][NextDispatch]_vars

\* ---- C36

\* the step is a call of op
DispStep(op) == d_ctr'.ops = d_ctr.ops + 1 /\ d_ctr'.op = op

\* the call did nothing but fail its assertion
DispAsserts == d_err' /\ d_nodes' = d_nodes /\ d_fut' = d_fut

\* C36: on a UNARY target increment_incounter changes nothing and
\* decrement_incounter schedules the target, each time it is called; on a
\* READY target both fail their assertion, and so does outset_insert on a
\* NOOP out-strategy; a failed assertion changes nothing and nothing follows it
C36_DispatchOnTag ==
  [][LET in == d_nodes[DispTarget].in
         out == d_nodes[DispSource].out
     IN /\ ~d_err
        /\ DispStep("increment") /\ in.tag = UNARY_TAG =>
             ~d_err' /\ d_nodes' = d_nodes /\ d_fut' = d_fut
        /\ DispStep("decrement") /\ in.tag = UNARY_TAG =>
             /\ ~d_err'
             /\ d_nodes'[DispTarget] =
                  [d_nodes[DispTarget] EXCEPT !.sreq = @ + 1, !.ks = @ + 1]
             /\ d_nodes'[DispSource] = d_nodes[DispSource]
        /\ (DispStep("increment") \/ DispStep("decrement")) /\ in.tag = READY_TAG =>
             DispAsserts
        /\ DispStep("insert") /\ out.tag = NOOP_OUT => DispAsserts
        /\ DispAsserts <=>
             \/ (DispStep("increment") \/ DispStep("decrement")) /\ in.tag = READY_TAG
             \/ DispStep("insert") /\ out.tag = NOOP_OUT]_vars

\* a UNARY target was decremented twice and scheduled twice, and then a call
\* failed its assertion
C36_Witness ==
  /\ d_prog.name = "dispatch"
  /\ d_nodes[DispTarget].in.tag = UNARY_TAG
  /\ d_nodes[DispTarget].sreq = 2
  /\ d_ctr.ops = 3
  /\ d_err

\* ---- C37

\* the producer nodes that exist
PfLive == {n \in PfNodes : pf_nodes[n].pc # "unborn"}

\* the producer nodes whose range holds index i
PfHolders(i) == {n \in PfLive : pf_nodes[n].lo <= i /\ i < pf_nodes[n].hi}

\* how many indices the step executed
PfExecuted == Cardinality({i \in PfIndices : pf_app'[i] # pf_app[i]})

PortState == [port |-> np_port, node |-> np_node, in |-> np_in, err |-> np_err]

PortBecomes(S) ==
  /\ np_port' = S.port
  /\ np_node' = S.node
  /\ np_in' = S.in
  /\ np_err' = S.err

\* new incounter_node, below parent, for in-counter k
NewInPort(k, parent) == [in |-> k, parent |-> parent, dec |-> 0, by |-> {}]

\* increment(nullptr) makes branch1 only: the place of branch2 stays unused
UnusedInPort == [in |-> 0, parent |-> NullPtr, dec |-> 0, by |-> {}]

\* the keys that fork_in_ports_for forks, and the place of each among them
ForkedKeys(parent_ports, child_ports) == DOMAIN parent_ports \cap DOMAIN child_ports
ForkRank(keys, k) == Cardinality({j \in keys : j < k})

\* fork_in_ports_for(parent->inports, child->inports): for every key of both
\* maps, in->increment(port) makes two nodes below the parent's port, the
\* first for the parent and the second for the child
fork_in_ports(S, parent, child) ==
  LET P == S.node[parent].inports
      C == S.node[child].inports
      keys == ForkedKeys(P, C)
      base == Len(S.port)
      key_at(r) == CHOOSE k \in keys : ForkRank(keys, k) = r
      made == [i \in 1..(2 * Cardinality(keys)) |->
                 LET k == key_at((i - 1) \div 2)
                 IN IF P[k] = NullPtr /\ i % 2 = 0 THEN UnusedInPort
                    ELSE NewInPort(k, P[k])]
  IN [S EXCEPT
        !.port = @ \o made,
        !.node[parent].inports =
           [k \in DOMAIN P |-> IF k \in keys THEN base + 2 * ForkRank(keys, k) + 1
                                             ELSE P[k]],
        !.node[child].inports =
           [k \in DOMAIN C |-> IF k \in keys
                                 THEN (IF P[k] = NullPtr THEN NullPtr
                                       ELSE base + 2 * ForkRank(keys, k) + 2)
                                 ELSE C[k]],
        !.in = [k \in DOMAIN @ |->
                  IF k \in keys /\ P[k] # NullPtr THEN [@[k] EXCEPT !.leaves = @ + 1]
                  ELSE @[k]]]

\* propagate_ports_for(parent, child), the in-ports: the child's map by the
\* child's inport_mode, then fork_in_ports_for
propagate_inports(S, mode, parent, child) ==
  fork_in_ports(
    [S EXCEPT !.node[child].inports =
                 propagate_ports_mode(mode, S.node[parent].inports, @)],
    parent, child)

\* insert_inport(caller, target_in, target_inport): std::map::insert keeps an
\* entry that is there already
insert_inport(S, caller, k, port) ==
  IF k \in DOMAIN S.node[caller].inports THEN S
  ELSE [S EXCEPT !.node[caller].inports = (k :> port) @@ @]

\* decrement_incounter(p.first->n, p.first, p.second) on in-counter k: the
\* port is decremented; the last port of the in-counter activates it and
\* start(n) schedules the owner
decrement_inport(S, n, k) ==
  LET p == S.node[n].inports[k]
  IN IF p = NullPtr THEN [S EXCEPT !.err = TRUE]
     ELSE LET last == S.in[k].leaves = 1
          IN [S EXCEPT !.port[p].dec = @ + 1,
                       !.port[p].by = @ \cup {n},
                       !.in[k].leaves = @ - 1,
                       !.in[k].st = IF last THEN "activated" ELSE @,
                       !.node[S.in[k].owner].st = IF last THEN "ready" ELSE @]

RECURSIVE decrement_each(_, _, _)
decrement_each(S, n, keys) ==
  IF keys = {} THEN S
  ELSE LET k == CHOOSE j \in keys : \A j2 \in keys : j <= j2
       IN decrement_each(decrement_inport(S, n, k), n, keys \ {k})

\* node::decrement_inports: every entry is decremented, then inports.clear()
decrement_inports(S, n) ==
  [decrement_each(S, n, DOMAIN S.node[n].inports) EXCEPT !.node[n].inports = NoPortMap]

\* a plausible slip: the worker keeps the out-strategy that was captured
port_capture_outset_keep(out) == out

\* capture_outset: sched->set_outstrategy(outset_noop()); what the worker
\* holds when the block ends
port_capture_outset(out) == "noop"

\* the block has returned: the worker notifies the out-strategy it holds;
\* portpassing_finished and outset::finished call decrement_inports, a noop
\* out-strategy does nothing
port_block_ends(S, n, wout) ==
  LET S1 == [S EXCEPT !.node[n].blocks = @ + 1]
  IN IF wout = "noop" THEN S1 ELSE decrement_inports(S1, n)

InitNodePorts ==
  /\ np_port = <<>>
  /\ np_node = [n \in PortNodeIds |-> IF n = 0 THEN [NoPortNode EXCEPT !.st = "ready"]
                                      ELSE NoPortNode]
  /\ np_in = [k \in PortCounters |-> NoPortCounter]
  /\ np_err = FALSE
  /\ TinOff
  /\ SimpleOff
  /\ FaOff
  /\ DagOff
  /\ DynOutOff
  /\ DynInOff
  /\ PfOff
  /\ InPortOff
  /\ PortMapOff
  /\ OutPortOff
  /\ SnziOff
  /\ BenchOff

FreshPortNode(n) ==
  /\ np_node[n].st = "unborn"
  /\ \A n2 \in PortNodeIds : np_node[n2].st = "unborn" => n <= n2

FreshPortCounter(k) ==
  /\ np_in[k].st = "unborn"
  /\ \A k2 \in PortCounters : np_in[k2].st = "unborn" => k <= k2

\* a block of consumer that calls finish(producer, ...): join_with(consumer,
\* new incounter(consumer)), propagate_ports_for(consumer, producer), the
\* first port of the new in-counter goes to the producer, the block ends
NP_Finish(consumer, producer) ==
  /\ np_node[consumer].st = "ready"
  /\ FreshPortNode(producer)
  /\ \E k \in PortCounters : \E mode \in PortModes :
       /\ FreshPortCounter(k)
       /\ LET S0 == [PortState EXCEPT
                       !.node[producer].st = "ready",
                       !.node[consumer].st = "waiting",
                       !.in[k] = [st |-> "live", owner |-> consumer, leaves |-> 1]]
              S1 == propagate_inports(S0, mode, consumer, producer)
              S2 == [S1 EXCEPT !.port = Append(@, NewInPort(k, NullPtr))]
              S3 == insert_inport(S2, producer, k, Len(S2.port))
          IN PortBecomes(port_block_ends(S3, consumer, port_capture_outset("unary")))
  /\ UNCHANGED nodePortsOthers

\* a block of caller that calls async(producer, consumer, ...), consumer the
\* owner of an in-counter of the caller's map: insert_inport(producer,
\* consumer->in, nullptr), propagate_ports_for(caller, producer), jump_to,
\* the block ends
NP_Async(caller, producer) ==
  /\ np_node[caller].st = "ready"
  /\ FreshPortNode(producer)
  /\ \E k \in DOMAIN np_node[caller].inports : \E mode \in PortModes :
       LET S0 == [PortState EXCEPT !.node[producer].st = "ready"]
           S1 == insert_inport(S0, producer, k, NullPtr)
           S2 == propagate_inports(S1, mode, caller, producer)
       IN PortBecomes(port_block_ends(S2, caller, port_capture_outset("unary")))
  /\ UNCHANGED nodePortsOthers

\* the final block of n: it returns without a transfer and the worker
\* notifies the out-strategy of the node
NP_Final(n) ==
  /\ np_node[n].st = "ready"
  /\ PortBecomes(port_block_ends([PortState EXCEPT !.node[n].st = "done"], n, "unary"))
  /\ UNCHANGED nodePortsOthers

NextNodePorts ==
  \/ \E n, n2 \in PortNodeIds : NP_Finish(n, n2)
  \/ \E n, n2 \in PortNodeIds : NP_Async(n, n2)
  \/ \E n \in PortNodeIds : NP_Final(n)

SpecNodePorts == InitNodePorts /\ [][NextNodePorts]_vars

\* ---- C38

\* the in-ports that node n holds in its map
InportsHeldBy(n) == {np_node[n].inports[k] : k \in DOMAIN np_node[n].inports}

\* the step is the end of the final block of n
FinalBlockOf(n) == np_node[n].st # "done" /\ np_node'[n].st = "done"

\* C38: at the end of its final block a node decrements every in-port of its
\* map, once, and its map is empty afterwards; the end of any other block and
\* the final block of another node leave an in-port as it was; so no in-port
\* is decremented twice or by two nodes, only nodes that ended have
\* decremented, no in-port is held by two nodes or under two keys, and no
\* null port is met
C38_InportsDecrementedAtEnd ==
  /\ [](\A p \in DOMAIN np_port :
          /\ np_port[p].dec <= 1
          /\ Cardinality(np_port[p].by) = np_port[p].dec
          /\ \A n \in np_port[p].by : np_node[n].st = "done")
  /\ [](\A n \in PortNodeIds :
          /\ np_node[n].st = "done" => np_node[n].inports = NoPortMap
          /\ \A k \in DOMAIN np_node[n].inports :
               /\ np_node[n].inports[k] \in DOMAIN np_port
               /\ np_port[np_node[n].inports[k]].in = k
               /\ np_port[np_node[n].inports[k]].dec = 0
               /\ \A n2 \in PortNodeIds \ {n} :
                    np_node[n].inports[k] \notin InportsHeldBy(n2))
  /\ [](~np_err)
  /\ [][\A p \in DOMAIN np_port :
          IF \E n \in PortNodeIds : FinalBlockOf(n) /\ p \in InportsHeldBy(n)
            THEN \E n \in PortNodeIds :
                   /\ FinalBlockOf(n)
                   /\ np_port'[p] = [np_port[p] EXCEPT !.dec = 1, !.by = {n}]
            ELSE np_port'[p] = np_port[p]]_vars

\* a node that held two in-ports ran a block that transferred control and
\* then its final block: both in-ports are decremented by it, while another
\* node still holds in-ports
C38_Witness ==
  \E n \in PortNodeIds :
    /\ np_node[n].st = "done"
    /\ np_node[n].blocks >= 2
    /\ Cardinality({p \in DOMAIN np_port : np_port[p].by = {n}}) >= 2
    /\ \E n2 \in PortNodeIds : np_node[n2].st = "ready" /\ InportsHeldBy(n2) # {}

\* ---- C39

\* the step in which fork2 of task t returns (nullptr, nullptr) and
\* fork_out_ports_for erases the out-set from the maps
ForkReturnsNull(t) ==
  /\ op_task[t].st \in {"running", "fork0"}
  /\ op_task[t].port # NullPtr
  /\ op_task'[t].st = "running"
  /\ op_task'[t].port = NullPtr

\* the step in which fork2 of task t returns its two branches
ForkReturnsBranches(t) ==
  /\ op_task[t].st = "fork0"
  /\ op_task'[t].st = "running"
  /\ op_task'[t].port # NullPtr

\* fork2 installs both children or none: when it returns (nullptr, nullptr)
\* no node made by the call is in a slot of the port
C39_ForkAllOrNothing ==
  [][\A t \in OutTasks :
       ForkReturnsNull(t) /\ op_task[t].st = "fork0" =>
         op_nodes'[op_task[t].port].c[1].p # op_task[t].b]_vars

\* C39: fork2 either installs two fresh children at slots 0 and 1 of the
\* port, which the parent and the child get, or returns (nullptr, nullptr);
\* it then leaves children[0] as it was, and children[1] too unless its first
\* compare-exchange had installed branches[1], which stays there; whenever it
\* returns (nullptr, nullptr) is_finished() is true, the out-set is erased
\* from both maps, and a later force takes the is_finished branch: no force
\* reaches find_outport without an entry
C39_ForkFailsOnlyWhenFinished ==
  /\ [][\A t \in OutTasks :
          LET port == op_task[t].port
              child == op_task[t].child
          IN /\ ForkReturnsBranches(t) =>
                  /\ op_nodes[port].c[0] = NullChild2
                  /\ op_nodes'[port].c[0].p = op_task'[t].port
                  /\ op_nodes'[port].c[1].p = op_task'[child].port
                  /\ op_task'[t].port # op_task'[child].port
                  /\ op_nodes[op_task'[t].port].st = "unborn"
                  /\ op_nodes'[op_task'[t].port] = NewOutPort
                  /\ op_task[child].st = "new" /\ op_task'[child].st = "running"
             /\ ForkReturnsNull(t) =>
                  /\ is_finished(op_nodes[OutRootPort].c[0])
                  /\ op_nodes' = op_nodes
                  /\ \A t2 \in OutTasks :
                       op_task'[t2].st = "running" /\ op_task[t2].st # "running" =>
                         op_task'[t2].port = NullPtr
                  /\ op_task[t].st = "fork0" =>
                       /\ op_nodes[port].c[1].p = op_task[t].b
                       /\ op_nodes[port].c[0].p = NullPtr
             /\ op_task[t].st = "running" /\ port = NullPtr /\ op_task'[t] # op_task[t] =>
                  /\ is_finished(op_nodes[OutRootPort].c[0])
                  /\ op_task'[t].st \in {"running", "done"}
                  /\ op_task'[t].st = "done" => op_task'[t].res = insert_fail]_vars
  /\ [](~op_err)
  /\ [](\A t \in OutTasks :
          op_task[t].st \in {"running", "done"} /\ op_task[t].port = NullPtr =>
            is_finished(op_nodes[OutRootPort].c[0]))

\* fork2 returned (nullptr, nullptr) after its first compare-exchange had
\* succeeded: branches[1] sits in children[1] of a port whose children[0] is
\* frozen and null, nobody holds it, and the task that lost its entry has
\* forced the out-set and got insert_fail
C39_Witness ==
  /\ \E n \in OutPorts : \E b \in OutPorts :
       /\ op_nodes[n].st = "live"
       /\ op_nodes[n].c[0].p = NullPtr /\ op_nodes[n].c[0].frozen
       /\ op_nodes[n].c[1].p = b
       /\ \A t \in OutTasks : op_task[t].port # b /\ op_task[t].b # b
       /\ op_nodes[b].target = NullPtr
  /\ \E t \in OutTasks :
       op_task[t].st = "done" /\ op_task[t].port = NullPtr /\ op_task[t].res = insert_fail

\* ---- C40

\* the out-set is not a future and its walk went on in the notify task
WalkWentPar == o_sda /\ o_wk[1].pc # "unborn"

\* delete out has run, or a node of the tree has been freed
OutsetDeallocated == o_dels >= 1 \/ o_freed # {}

\* every slot of the tree carries a finished tag, every successor in a leaf
\* has been decremented, once
WalkComplete ==
  /\ \A n \in DOMAIN o_tree : \A i \in Slots : IsFinishedTag(o_tree[n][i].tag)
  /\ \A s \in PreSuccessors \cup Inserters : HasLeaf(s) => o_dec[s] = 1

====
